---- MODULE Spec2Model ----
(***************************************************************************)
(* Batching and result reconciliation of mongoc-write-command.c:           *)
(* _mongoc_write_opmsg (MessageBatcher), _mongoc_write_opquery             *)
(* (LegacyArrayBatcher) and _mongoc_write_result_merge (ResultAccumulator).*)
(*                                                                         *)
(* The payload buffer is the sequence of its length-prefixed records, each *)
(* record given by its byte length; byte offsets into the buffer are sums  *)
(* of record lengths.  A BSON document is the sequence of its fields, a    *)
(* BSON array the sequence of its elements.  All sizes stay far below 2^31,*)
(* so the 32-bit arithmetic of the source never wraps inside the bounds.   *)
(***************************************************************************)
EXTENDS Integers, Sequences, FiniteSets, TLC

VARIABLES
    command,                \* mongoc_write_command_t: type, flags, payload
    server,                 \* limits read from the server stream
    result,                 \* mongoc_write_result_t
    pc,                     \* position of the running function
    header,                 \* _mongoc_write_opmsg locals
    payload_batch_size,
    payload_total_offset,
    document_count,
    index_offset,
    data_offset,            \* _mongoc_write_opquery locals
    offset,
    has_more,
    ret,
    len,
    start_offset,           \* the offset argument the caller passed
    sent,                   \* the batches closed for sending, in order
    tooLarge,               \* calls of _mongoc_write_command_too_large_error
    write_concern,          \* the write concern of the call
    path,                   \* the functions _mongoc_write_command_execute ran
    complete,               \* what _mongoc_write_result_complete gave back
    appended                \* the arguments of the init and append calls

vars == <<command, server, result, pc, header, payload_batch_size,
          payload_total_offset, document_count, index_offset, data_offset,
          offset, has_more, ret, len, start_offset, sent, tooLarge,
          write_concern, path, complete, appended>>

msgVars == <<header, payload_batch_size, payload_total_offset, document_count,
             index_offset>>

queryVars == <<data_offset, offset, has_more, ret, len>>

callVars == <<write_concern, path, complete, appended>>

(***************************************************************************)
(* Bounds of the model.                                                    *)
(***************************************************************************)
MaxDocs == 3            \* records in a payload
MaxSends == 4           \* commands sent during one execution
MaxMerges == 2          \* replies merged into one result (SpecMerge)
CmdLen == 40            \* bytes of the assembled command document
MaxBsonObjSize == 16    \* the server's maxBsonObjectSize

(***************************************************************************)
(* Program constants.                                                      *)
(***************************************************************************)
BSON_OBJECT_ALLOWANCE == 16384
OpMsgOverhead == 26
HeaderInit == 16 * 1024
MinDocLen == 5
WIRE_VERSION_COLLATION == 5
WIRE_VERSION_OP_MSG == 6
MONGOC_ERROR_API_VERSION_2 == 2

Types == {"delete", "insert", "update"}

gCommandFieldLens == [delete |-> 7, insert |-> 9, update |-> 7]

gLegacyWriteOps ==
    [delete |-> "_mongoc_write_command_delete_legacy",
     insert |-> "_mongoc_write_command_insert_legacy",
     update |-> "_mongoc_write_command_update_legacy"]

(***************************************************************************)
(* BSON values.  A field is a key with a typed value; only the int32 and   *)
(* utf8 payloads are read by the code, every other type is opaque.         *)
(***************************************************************************)
Int32Field(k, v) == [key |-> k, t |-> "int32", i |-> v, s |-> ""]

Utf8Field(k, v) == [key |-> k, t |-> "utf8", i |-> 0, s |-> v]

OidField(k, v) == [key |-> k, t |-> "oid", i |-> 0, s |-> v]

DocElem(d) == [t |-> "document", doc |-> d]

ScalarElem == [t |-> "int32", doc |-> <<>>]

\* bson_iter_int32: the value when the field holds an int32, else 0
bson_iter_int32(f) == IF f.t = "int32" THEN f.i ELSE 0

\* bson_iter_find: index of the first field named k, 0 when there is none
bson_iter_find(doc, k) ==
    IF \E j \in 1..Len(doc) : doc[j].key = k
    THEN CHOOSE j \in 1..Len(doc) :
            doc[j].key = k /\ \A h \in 1..(j - 1) : doc[h].key # k
    ELSE 0

(***************************************************************************)
(* Replies.  has_* tell which of the fields the code looks for are present.*)
(***************************************************************************)
EmptyReply ==
    [has_ok |-> FALSE, has_n |-> FALSE, n |-> 0,
     has_writeErrors |-> FALSE, writeErrors |-> <<>>,
     has_upserted |-> FALSE, upserted |-> <<>>,
     has_nModified |-> FALSE, nModified |-> 0,
     has_wce |-> FALSE, writeConcernError |-> <<>>]

bson_empty(reply) ==
    /\ ~reply.has_ok
    /\ ~reply.has_n
    /\ ~reply.has_writeErrors
    /\ ~reply.has_upserted
    /\ ~reply.has_nModified
    /\ ~reply.has_wce

(***************************************************************************)
(* mongoc_write_result_t after _mongoc_write_result_init.                  *)
(***************************************************************************)
NoError == [domain |-> "", code |-> 0, message |-> ""]

_mongoc_write_result_init ==
    [nInserted |-> 0, nMatched |-> 0, nModified |-> 0, nRemoved |-> 0,
     nUpserted |-> 0, upserted |-> <<>>, upsert_append_count |-> 0,
     writeErrors |-> <<>>, writeConcernErrors |-> <<>>,
     n_writeConcernErrors |-> 0, failed |-> FALSE, must_stop |-> FALSE,
     error |-> NoError]

(***************************************************************************)
(* _mongoc_write_result_append_upsert                                      *)
(***************************************************************************)
_mongoc_write_result_append_upsert(res, idx, value) ==
    [res EXCEPT
       !.upserted = Append(@, DocElem(<<Int32Field("index", idx),
                                        [value EXCEPT !.key = "_id"]>>)),
       !.upsert_append_count = @ + 1]

(***************************************************************************)
(* _mongoc_write_result_merge_arrays: every document element of the array  *)
(* is copied to the end of dest, its "index" fields re-based by off.       *)
(***************************************************************************)
RebaseField_NoOffset(f, off) == f

RebaseField(f, off) ==
    IF f.key = "index" THEN Int32Field("index", bson_iter_int32(f) + off)
    ELSE f

RebaseDoc(doc, off) == [j \in 1..Len(doc) |-> RebaseField(doc[j], off)]

RECURSIVE _mongoc_write_result_merge_arrays(_, _, _)
_mongoc_write_result_merge_arrays(off, dest, ar) ==
    IF ar = <<>> THEN dest
    ELSE LET e == Head(ar)
             d == IF e.t = "document"
                  THEN Append(dest, DocElem(RebaseDoc(e.doc, off)))
                  ELSE dest
         IN _mongoc_write_result_merge_arrays(off, d, Tail(ar))

(***************************************************************************)
(* _mongoc_write_result_merge                                              *)
(***************************************************************************)
\* an element of "upserted" is taken when it is a document with an int32
\* "index" and an "_id"
UpsertEntryOk(e) ==
    /\ e.t = "document"
    /\ bson_iter_find(e.doc, "index") # 0
    /\ e.doc[bson_iter_find(e.doc, "index")].t = "int32"
    /\ bson_iter_find(e.doc, "_id") # 0

RECURSIVE MergeUpserted(_, _, _)
MergeUpserted(res, ar, off) ==
    IF ar = <<>> THEN res
    ELSE LET e == Head(ar)
             r == IF UpsertEntryOk(e)
                  THEN _mongoc_write_result_append_upsert(
                          res,
                          off + bson_iter_int32(
                                   e.doc[bson_iter_find(e.doc, "index")]),
                          e.doc[bson_iter_find(e.doc, "_id")])
                  ELSE res
         IN MergeUpserted(r, Tail(ar), off)

MatchedDelta_NoClamp(affected, n_upserted) == affected - n_upserted

MatchedDelta(affected, n_upserted) ==
    IF affected - n_upserted > 0 THEN affected - n_upserted ELSE 0

MergeUpdate(res, reply, affected, off) ==
    LET r1 == IF reply.has_upserted
              THEN LET m == MergeUpserted(res, reply.upserted, off)
                       n_upserted == m.upsert_append_count
                                       - res.upsert_append_count
                   IN [m EXCEPT !.nUpserted = @ + n_upserted,
                                !.nMatched = @ + MatchedDelta(affected,
                                                              n_upserted)]
              ELSE [res EXCEPT !.nMatched = @ + affected]
    IN IF reply.has_nModified
       THEN [r1 EXCEPT !.nModified = @ + reply.nModified]
       ELSE r1

MergeFailed_Assign(res, reply) ==
    [res EXCEPT !.failed = reply.has_writeErrors
                             /\ Len(reply.writeErrors) > 0]

MergeFailed(res, reply) ==
    IF reply.has_writeErrors /\ Len(reply.writeErrors) > 0
    THEN [res EXCEPT !.failed = TRUE]
    ELSE res

MergeCounts_None(res, type, reply, affected, off) == res

MergeCounts(res, type, reply, affected, off) ==
    CASE type = "insert" -> [res EXCEPT !.nInserted = @ + affected]
      [] type = "delete" -> [res EXCEPT !.nRemoved = @ + affected]
      [] type = "update" -> MergeUpdate(res, reply, affected, off)

MergeWriteErrors(res, reply, off) ==
    IF reply.has_writeErrors
    THEN [res EXCEPT !.writeErrors =
            _mongoc_write_result_merge_arrays(off, @, reply.writeErrors)]
    ELSE res

MergeWriteConcernError(res, reply) ==
    IF reply.has_wce
    THEN [res EXCEPT
            !.writeConcernErrors = Append(@, DocElem(reply.writeConcernError)),
            !.n_writeConcernErrors = @ + 1]
    ELSE res

_mongoc_write_result_merge(res, type, reply, off) ==
    LET affected == IF reply.has_n THEN reply.n ELSE 0
        r1 == MergeFailed(res, reply)
        r2 == MergeCounts(r1, type, reply, affected, off)
        r3 == MergeWriteErrors(r2, reply, off)
    IN MergeWriteConcernError(r3, reply)

(***************************************************************************)
(* The payload buffer: byte offsets of its records, and the 4-byte length  *)
(* prefix read at a byte offset.                                           *)
(***************************************************************************)
RECURSIVE SumLens(_)
SumLens(s) == IF s = <<>> THEN 0 ELSE Head(s) + SumLens(Tail(s))

\* command->payload.len
PayloadLen == SumLens(command.payload)

\* byte offset of record k (1-based) in the buffer
RecordStart(k) == SumLens(SubSeq(command.payload, 1, k - 1))

AlignedAt(pos) == \E k \in 1..Len(command.payload) : RecordStart(k) = pos

RecordAt(pos) == CHOOSE k \in 1..Len(command.payload) : RecordStart(k) = pos

\* a length that exceeds max_bson_obj_size + 16384
BigLen == MaxBsonObjSize + BSON_OBJECT_ALLOWANCE + 1

\* what four bytes that are not a record's length prefix may decode to
GarbageLens == {MinDocLen, BigLen}

\* memcpy (&len, payload.data + pos, 4): the record's length at a record
\* boundary; anywhere else the bytes belong to a record's body (or lie past
\* the buffer) and decode to an arbitrary length
ReadLen(pos) ==
    IF AlignedAt(pos) THEN {command.payload[RecordAt(pos)]} ELSE GarbageLens

(***************************************************************************)
(* mongoc_write_concern_t as the code reads it: w = 0 is an unacknowledged *)
(* write, w = 1 waits for the primary, w = 2 for a second member.          *)
(***************************************************************************)
mongoc_write_concern_is_valid(wc) == wc.valid

mongoc_write_concern_is_acknowledged_Always(wc) == TRUE

mongoc_write_concern_is_acknowledged(wc) == wc.w # 0

AcknowledgedWrite == [valid |-> TRUE, w |-> 1]

\* _mongoc_write_result_complete has not been called
NotCompleted == [called |-> FALSE]

(***************************************************************************)
(* The transport (mongoc_cluster_run_command_monitored): it returns true   *)
(* or false and leaves a reply, possibly empty; on false it fills error.   *)
(***************************************************************************)
WriteError(idx, code, msg) ==
    DocElem(<<Int32Field("index", idx), Int32Field("code", code),
              Utf8Field("errmsg", msg)>>)

OkReply(n) == [EmptyReply EXCEPT !.has_ok = TRUE, !.has_n = TRUE, !.n = n]

WriteErrorReply(n) ==
    [EmptyReply EXCEPT !.has_ok = TRUE, !.has_n = TRUE,
                       !.n = IF n > 0 THEN n - 1 ELSE 0,
                       !.has_writeErrors = TRUE,
                       !.writeErrors = <<WriteError(0, 11000, "dup")>>]

ErrorReply == [EmptyReply EXCEPT !.has_ok = TRUE]

StreamError == [domain |-> "stream", code |-> 4, message |-> "socket error"]

ServerError == [domain |-> "server", code |-> 59, message |-> "no such command"]

WriteConcernErrorDoc ==
    <<Int32Field("code", 64), Utf8Field("errmsg", "wtimeout")>>

\* the write was applied but the write concern could not be satisfied
WriteConcernErrorReply(n) ==
    [OkReply(n) EXCEPT !.has_wce = TRUE,
                       !.writeConcernError = WriteConcernErrorDoc]

\* the outcomes of sending a command that carries n records; a write
\* concern error is reported only to a write that waits for other members
SendOutcomes(n) ==
    { [ret |-> TRUE, reply |-> OkReply(n), error |-> NoError],
      [ret |-> TRUE, reply |-> WriteErrorReply(n), error |-> NoError],
      [ret |-> FALSE, reply |-> EmptyReply, error |-> StreamError],
      [ret |-> FALSE, reply |-> ErrorReply, error |-> ServerError] }
    \cup (IF write_concern.w > 1
          THEN {[ret |-> TRUE, reply |-> WriteConcernErrorReply(n),
                 error |-> NoError]}
          ELSE {})

(***************************************************************************)
(* _mongoc_write_command_too_large_error                                   *)
(***************************************************************************)
_mongoc_write_command_too_large_error(idx, l, max_bson_size) ==
    [domain |-> "bson", code |-> 1,
     message |-> "Document " \o ToString(idx)
                   \o " is too large for the cluster. Document is "
                   \o ToString(l) \o " bytes, max is "
                   \o ToString(max_bson_size) \o "."]

(***************************************************************************)
(* _mongoc_write_opmsg                                                     *)
(***************************************************************************)
OpmsgHeader(type) == OpMsgOverhead + CmdLen + gCommandFieldLens[type] + 1

OpmsgTooLarge(l, max_bson_obj_size) ==
    l > max_bson_obj_size + BSON_OBJECT_ALLOWANCE

OpmsgFits_Strict(batch, hdr, l, max_msg_size) ==
    (batch + hdr) + l < max_msg_size

OpmsgFits(batch, hdr, l, max_msg_size) == (batch + hdr) + l <= max_msg_size

\* ship_it after the record was added to the batch
OpmsgShipAfterAdd(count, batch, total, max_document_count) ==
    \/ count = max_document_count
    \/ batch + total = PayloadLen

\* index_offset += document_count, executed after document_count = 0
OpmsgNextIndexOffset(idx, count_at_ship, count_now) == idx + count_now

OpmsgAfterSend_MustStopOnly(res, out) ==
    IF ~out.ret
    THEN [res EXCEPT !.must_stop = TRUE, !.error = out.error]
    ELSE res

\* if (!ret) { failed = true; must_stop = true; }
OpmsgAfterSend(res, out) ==
    IF ~out.ret
    THEN [res EXCEPT !.failed = TRUE, !.must_stop = TRUE, !.error = out.error]
    ELSE res

\* while (payload_total_offset < command->payload.len)
OpmsgLoopTest(total, res) == total < PayloadLen

\* the body of if (ship_it): send batch bytes from payload_total_offset,
\* merge the reply, advance
OpmsgShip(batch, count, out) ==
    /\ Len(sent) < MaxSends
    /\ sent' = Append(sent, [start |-> payload_total_offset, size |-> batch,
                             count |-> count, offset |-> index_offset,
                             assembled |-> TRUE, ret |-> out.ret,
                             reply |-> out.reply])
    /\ payload_total_offset' = payload_total_offset + batch
    /\ payload_batch_size' = 0
    /\ document_count' = 0
    /\ result' = _mongoc_write_result_merge(OpmsgAfterSend(result, out),
                                            command.type, out.reply,
                                            index_offset)
    /\ index_offset' = OpmsgNextIndexOffset(index_offset, count,
                                            document_count')
    /\ pc' = IF OpmsgLoopTest(payload_total_offset', result')
             THEN "loop" ELSE "done"

\* mongoc_cmd_parts_assemble fails: nothing is sent
OpmsgAssembleFail ==
    /\ pc = "opmsg"
    /\ pc' = "assemble_failed"
    /\ result' = [result EXCEPT !.error = ServerError]
    /\ UNCHANGED <<command, server, callVars, msgVars, queryVars, start_offset, sent,
                   tooLarge>>

OpmsgAssemble ==
    /\ pc = "opmsg"
    /\ header' = OpmsgHeader(command.type)
    /\ pc' = "loop"
    /\ UNCHANGED <<command, server, callVars, result, payload_batch_size,
                   payload_total_offset, document_count, index_offset,
                   queryVars, start_offset, sent, tooLarge>>

\* the record is too large: it is skipped
OpmsgSkip ==
    /\ pc = "loop"
    /\ \E l \in ReadLen(payload_batch_size + payload_total_offset) :
         /\ OpmsgTooLarge(l, server.max_bson_obj_size)
         /\ result' = [result EXCEPT
                         !.failed = TRUE,
                         !.error = _mongoc_write_command_too_large_error(
                                      index_offset, l,
                                      server.max_bson_obj_size)]
         /\ tooLarge' = Append(tooLarge,
                               [pos |-> payload_batch_size
                                          + payload_total_offset,
                                idx |-> index_offset, len |-> l])
         /\ payload_batch_size' = 0
         /\ document_count' = 0
         /\ payload_total_offset' = payload_total_offset + l
         /\ pc' = IF OpmsgLoopTest(payload_total_offset', result')
                  THEN "loop" ELSE "done"
    /\ UNCHANGED <<command, server, callVars, header, index_offset, queryVars,
                   start_offset, sent>>

\* the record fits and the batch stays open
OpmsgAdd ==
    /\ pc = "loop"
    /\ \E l \in ReadLen(payload_batch_size + payload_total_offset) :
         /\ ~OpmsgTooLarge(l, server.max_bson_obj_size)
         /\ OpmsgFits(payload_batch_size, header, l, server.max_msg_size)
         /\ ~OpmsgShipAfterAdd(document_count + 1, payload_batch_size + l,
                               payload_total_offset,
                               server.max_write_batch_size)
         /\ payload_batch_size' = payload_batch_size + l
         /\ document_count' = document_count + 1
         /\ pc' = IF OpmsgLoopTest(payload_total_offset, result)
                  THEN "loop" ELSE "done"
    /\ UNCHANGED <<command, server, callVars, result, header, payload_total_offset,
                   index_offset, queryVars, start_offset, sent, tooLarge>>

\* the record fits and closes the batch, which is shipped
OpmsgAddShip ==
    /\ pc = "loop"
    /\ \E l \in ReadLen(payload_batch_size + payload_total_offset) :
         /\ ~OpmsgTooLarge(l, server.max_bson_obj_size)
         /\ OpmsgFits(payload_batch_size, header, l, server.max_msg_size)
         /\ OpmsgShipAfterAdd(document_count + 1, payload_batch_size + l,
                              payload_total_offset,
                              server.max_write_batch_size)
         /\ \E out \in SendOutcomes(document_count + 1) :
              OpmsgShip(payload_batch_size + l, document_count + 1, out)
    /\ UNCHANGED <<command, server, callVars, header, queryVars, start_offset,
                   tooLarge>>

\* the record does not fit: the batch without it is shipped
OpmsgShipFull ==
    /\ pc = "loop"
    /\ \E l \in ReadLen(payload_batch_size + payload_total_offset) :
         /\ ~OpmsgTooLarge(l, server.max_bson_obj_size)
         /\ ~OpmsgFits(payload_batch_size, header, l, server.max_msg_size)
         /\ \E out \in SendOutcomes(document_count) :
              OpmsgShip(payload_batch_size, document_count, out)
    /\ UNCHANGED <<command, server, callVars, header, queryVars, start_offset,
                   tooLarge>>

(***************************************************************************)
(* Executions of _mongoc_write_opmsg: any command of up to MaxDocs records,*)
(* any of the limits below.                                                *)
(***************************************************************************)
MsgDocLens == {MinDocLen, 8, BigLen}

\* max_msg_size leaves this many bytes for the payload
MsgRooms == {7, 10}

BatchCounts == {0, 1, 2}

StartOffsets == {0, 10}

Payloads(lens) == UNION {[1..n -> lens] : n \in 1..MaxDocs}

InitLocals ==
    /\ result = _mongoc_write_result_init
    /\ header = HeaderInit
    /\ payload_batch_size = 0
    /\ payload_total_offset = 0
    /\ document_count = 0
    /\ data_offset = 0
    /\ has_more = FALSE
    /\ ret = FALSE
    /\ len = 0
    /\ sent = <<>>
    /\ tooLarge = <<>>
    /\ path = <<>>
    /\ complete = NotCompleted
    /\ appended = <<>>

InitMsg ==
    /\ command \in {[type |-> t, flags |-> [ordered |-> o], payload |-> p,
                     n_documents |-> Len(p)] :
                       t \in {"insert"}, o \in BOOLEAN,
                       p \in Payloads(MsgDocLens)}
    /\ server \in {[max_bson_obj_size |-> MaxBsonObjSize,
                    max_msg_size |-> OpmsgHeader(command.type) + room,
                    max_write_batch_size |-> c,
                    max_wire_version |-> WIRE_VERSION_OP_MSG] :
                      room \in MsgRooms, c \in BatchCounts}
    /\ start_offset \in StartOffsets
    /\ index_offset = start_offset
    /\ offset = start_offset
    /\ pc = "opmsg"
    /\ write_concern = AcknowledgedWrite
    /\ InitLocals

NextMsg ==
    \/ OpmsgAssembleFail
    \/ OpmsgAssemble
    \/ OpmsgSkip
    \/ OpmsgAdd
    \/ OpmsgAddShip
    \/ OpmsgShipFull

SpecMsg == InitMsg /\ [][NextMsg]_vars

(***************************************************************************)
(* _mongoc_write_command_will_overflow                                     *)
(***************************************************************************)
_mongoc_write_command_will_overflow_SizeOnly(len_so_far, document_len, n_documents_written, max_bson_size, max_write_batch_size) ==
    len_so_far + document_len > max_bson_size + 16384

_mongoc_write_command_will_overflow(len_so_far, document_len, n_documents_written, max_bson_size, max_write_batch_size) ==
    LET max_cmd_size == max_bson_size + 16384
    IN \/ len_so_far + document_len > max_cmd_size
       \/ /\ max_write_batch_size > 0
          /\ n_documents_written >= max_write_batch_size

(***************************************************************************)
(* _mongoc_write_opquery                                                   *)
(***************************************************************************)
\* bson_uint32_to_string: the number of decimal digits of the array key
KeyLen(i) == IF i < 10 THEN 1 ELSE IF i < 100 THEN 2 ELSE 3

\* 1 byte array type, 1 byte terminator of the field name
QueryOverhead(type) == CmdLen + 2 + gCommandFieldLens[type]

\* the while loop over the reader, from record k with i records written and
\* ar.len = arlen: where it stops
RECURSIVE QueryScan(_, _, _, _)
QueryScan(k, i, arlen, lastlen) ==
    IF k > Len(command.payload)
    THEN [i |-> i, next |-> k, has_more |-> FALSE, len |-> lastlen,
          bson |-> FALSE]
    ELSE LET l == command.payload[k]
             key_len == KeyLen(i)
         IN IF _mongoc_write_command_will_overflow(
                  QueryOverhead(command.type), key_len + l + 2 + arlen, i,
                  server.max_bson_obj_size, server.max_write_batch_size)
            THEN [i |-> i, next |-> k, has_more |-> TRUE, len |-> l,
                  bson |-> TRUE]
            ELSE QueryScan(k + 1, i + 1, arlen + key_len + 2 + l, l)

\* the record the reader starts at: data_offset is always a record boundary
\* or the end of the buffer
QueryFirst ==
    IF data_offset = PayloadLen THEN Len(command.payload) + 1
    ELSE RecordAt(data_offset)

QueryRound == QueryScan(QueryFirst, 0, 5, len)

\* if (!ret) { failed = true; if (bson_empty (&reply)) must_stop = true; }
QueryMustStop_Always(r, reply) == ~r

QueryMustStop(r, reply) == ~r /\ bson_empty(reply)

QueryAfterSend(res, out) ==
    IF ~out.ret
    THEN [res EXCEPT !.failed = TRUE,
                     !.must_stop = @ \/ QueryMustStop(out.ret, out.reply),
                     !.error = out.error]
    ELSE res

QueryAgain_IgnoreOrdered(more, r, ordered, must_stop) == more /\ ~must_stop

\* if (has_more && (ret || !ordered) && !must_stop) GOTO (again)
QueryAgain(more, r, ordered, must_stop) ==
    more /\ (r \/ ~ordered) /\ ~must_stop

QuerySkipTo_End(off, round) == PayloadLen

\* if (bson) data_offset += len
QuerySkipTo(off, round) == IF round.bson THEN off + round.len ELSE off

\* no record was accepted: too large, nothing is sent
QueryTooLarge ==
    /\ pc = "again"
    /\ QueryRound.i = 0
    /\ result' = [result EXCEPT
                    !.failed = TRUE,
                    !.error = _mongoc_write_command_too_large_error(
                                 0, QueryRound.len,
                                 server.max_bson_obj_size)]
    /\ tooLarge' = Append(tooLarge, [pos |-> data_offset, idx |-> 0,
                                     len |-> QueryRound.len])
    /\ ret' = FALSE
    /\ len' = QueryRound.len
    /\ has_more' = QueryRound.has_more
    /\ data_offset' = QuerySkipTo(data_offset, QueryRound)
    /\ pc' = IF QueryAgain(has_more', ret', command.flags.ordered,
                           result'.must_stop)
             THEN "again" ELSE "done"
    /\ UNCHANGED <<command, server, callVars, msgVars, offset, start_offset, sent>>

\* the records accepted in this round are sent and the reply is merged
QuerySend ==
    /\ pc = "again"
    /\ QueryRound.i > 0
    /\ \E out \in SendOutcomes(QueryRound.i) :
         /\ sent' = Append(sent,
                           [start |-> data_offset,
                            size |-> RecordStart(QueryRound.next)
                                       - data_offset,
                            count |-> QueryRound.i, offset |-> offset,
                            assembled |-> TRUE, ret |-> out.ret,
                            reply |-> out.reply])
         /\ ret' = out.ret
         /\ result' = _mongoc_write_result_merge(QueryAfterSend(result, out),
                                                 command.type, out.reply,
                                                 offset)
    /\ offset' = offset + QueryRound.i
    /\ len' = QueryRound.len
    /\ has_more' = QueryRound.has_more
    /\ data_offset' = RecordStart(QueryRound.next)
    /\ pc' = IF QueryAgain(has_more', ret', command.flags.ordered,
                           result'.must_stop)
             THEN "again" ELSE "done"
    /\ UNCHANGED <<command, server, callVars, msgVars, start_offset, tooLarge>>

\* mongoc_cmd_parts_assemble fails: must_stop, an empty reply is merged
QueryAssembleFail ==
    /\ pc = "again"
    /\ QueryRound.i > 0
    /\ sent' = Append(sent,
                      [start |-> data_offset,
                       size |-> RecordStart(QueryRound.next) - data_offset,
                       count |-> QueryRound.i, offset |-> offset,
                       assembled |-> FALSE, ret |-> FALSE,
                       reply |-> EmptyReply])
    /\ ret' = FALSE
    /\ result' = _mongoc_write_result_merge(
                    [result EXCEPT !.must_stop = TRUE, !.failed = TRUE,
                                   !.error = ServerError],
                    command.type, EmptyReply, offset)
    /\ offset' = offset + QueryRound.i
    /\ len' = QueryRound.len
    /\ has_more' = QueryRound.has_more
    /\ data_offset' = RecordStart(QueryRound.next)
    /\ pc' = IF QueryAgain(has_more', ret', command.flags.ordered,
                           result'.must_stop)
             THEN "again" ELSE "done"
    /\ UNCHANGED <<command, server, callVars, msgVars, start_offset, tooLarge>>

(***************************************************************************)
(* Executions of _mongoc_write_opquery.                                    *)
(***************************************************************************)
\* two records of HalfLen do not fit one command, one does
HalfLen == BSON_OBJECT_ALLOWANCE \div 2

QueryDocLens == {MinDocLen, HalfLen, BigLen}

InitQuery ==
    /\ command \in {[type |-> t, flags |-> [ordered |-> o], payload |-> p,
                     n_documents |-> Len(p)] :
                       t \in {"insert", "update"}, o \in BOOLEAN,
                       p \in Payloads(QueryDocLens)}
    /\ server \in {[max_bson_obj_size |-> MaxBsonObjSize,
                    max_msg_size |-> 0,
                    max_write_batch_size |-> c,
                    max_wire_version |-> WIRE_VERSION_COLLATION] :
                      c \in BatchCounts}
    /\ start_offset \in StartOffsets
    /\ index_offset = start_offset
    /\ offset = start_offset
    /\ pc = "again"
    /\ write_concern = AcknowledgedWrite
    /\ InitLocals

NextQuery ==
    \/ QueryTooLarge
    \/ QuerySend
    \/ QueryAssembleFail

SpecQuery == InitQuery /\ [][NextQuery]_vars

(***************************************************************************)
(* What the batches of _mongoc_write_opmsg carried, read off the payload.  *)
(***************************************************************************)
\* the records that lie wholly inside the bytes [b.start, b.start + b.size)
RecordsIn(b) ==
    SelectSeq([k \in 1..Len(command.payload) |-> k],
              LAMBDA k : /\ b.start <= RecordStart(k)
                         /\ RecordStart(k) + command.payload[k]
                              <= b.start + b.size)

\* the bytes of b are exactly a run of whole records
WholeRecords(b) ==
    SumLens([j \in 1..Len(RecordsIn(b)) |->
               command.payload[RecordsIn(b)[j]]]) = b.size

RECURSIVE Shipped(_)
Shipped(s) == IF s = <<>> THEN <<>> ELSE RecordsIn(Head(s)) \o Shipped(Tail(s))

Oversized(k) == command.payload[k] > server.max_bson_obj_size
                                      + BSON_OBJECT_ALLOWANCE

NoOversized == \A k \in 1..Len(command.payload) : ~Oversized(k)

\* every record alone fits a message and none is oversized
PlainPayload ==
    /\ NoOversized
    /\ \A k \in 1..Len(command.payload) :
          OpmsgHeader(command.type) + command.payload[k] <= server.max_msg_size

AllSendsOk ==
    \A j \in 1..Len(sent) :
       sent[j].ret /\ sent[j].reply = OkReply(sent[j].count)

HasWriteErrors(reply) == reply.has_writeErrors /\ reply.writeErrors # <<>>

(***************************************************************************)
(* C1.  For a command shipped in several batches, the offset handed to the *)
(* merge of each batch is the caller's starting offset plus the number of  *)
(* sub-operations shipped in all earlier batches (stated for payloads in   *)
(* which no record is oversized and every record fits a message).          *)
(***************************************************************************)
C1_OffsetCountsEarlierBatches ==
    PlainPayload =>
       \A j \in 1..Len(sent) :
          sent[j].offset = start_offset + Len(Shipped(SubSeq(sent, 1, j - 1)))

(***************************************************************************)
(* C2.  Once a transport send failed, no further batch of the command is   *)
(* sent: a failed send is the last one (stated for payloads in which no    *)
(* record is oversized and every record fits a message).                   *)
(***************************************************************************)
C2_NoBatchAfterFailedSend ==
    PlainPayload => \A j \in 1..Len(sent) : ~sent[j].ret => j = Len(sent)

(***************************************************************************)
(* C3.  An ordered command sends no batch after the first batch whose      *)
(* reply reports write errors; an unordered command whose sends all        *)
(* succeed ships every record (stated for payloads in which no record is   *)
(* oversized and every record fits a message).                             *)
(***************************************************************************)
C3_OrderedStopsAtWriteError ==
    /\ (command.flags.ordered /\ PlainPayload) =>
          \A j \in 1..Len(sent) :
             (sent[j].ret /\ HasWriteErrors(sent[j].reply)) => j = Len(sent)
    /\ (/\ ~command.flags.ordered
        /\ pc = "done"
        /\ PlainPayload
        /\ \A j \in 1..Len(sent) : sent[j].ret)
         => Shipped(sent) = [k \in 1..Len(command.payload) |-> k]

(***************************************************************************)
(* C4.  When every send succeeds, at the end: each oversized record has    *)
(* produced exactly one too-large error and set failed, and the batches    *)
(* carry exactly the other records, each once, in original order.          *)
(***************************************************************************)
C4_OversizedSkippedOthersShipped ==
    (pc = "done" /\ AllSendsOk) =>
       /\ \A k \in 1..Len(command.payload) :
             Oversized(k) =>
                /\ Cardinality({j \in 1..Len(tooLarge) :
                                   tooLarge[j].pos = RecordStart(k)}) = 1
                /\ result.failed
       /\ \A j \in 1..Len(sent) : WholeRecords(sent[j])
       /\ Shipped(sent) = SelectSeq([k \in 1..Len(command.payload) |-> k],
                                    LAMBDA k : ~Oversized(k))

(***************************************************************************)
(* C5.  n records of one size d, none oversized, every send successful,    *)
(* k = (max_msg_size - header) div d >= 1 and a batch count limit of at    *)
(* least k: exactly ceil(n/k) batches are sent, each of k records except   *)
(* possibly the last, and together they carry records 1..n in order.       *)
(***************************************************************************)
EqualSize == \A k \in 1..Len(command.payload) :
                command.payload[k] = command.payload[1]

PerBatch == (server.max_msg_size - header) \div command.payload[1]

C5_Pre ==
    /\ pc = "done"
    /\ EqualSize
    /\ NoOversized
    /\ \A j \in 1..Len(sent) : sent[j].ret
    /\ PerBatch >= 1
    /\ server.max_write_batch_size >= PerBatch

C5_EqualSizeBatches ==
    C5_Pre =>
       LET n == Len(command.payload)
           k == PerBatch
           batches == (n + k - 1) \div k
       IN /\ Len(sent) = batches
          /\ \A j \in 1..Len(sent) :
                /\ WholeRecords(sent[j])
                /\ Len(RecordsIn(sent[j])) =
                      IF j < batches THEN k ELSE n - k * (batches - 1)
          /\ Shipped(sent) = [j \in 1..n |-> j]

C5_Witness ==
    /\ C5_Pre
    /\ Len(command.payload) = 3
    /\ PerBatch = 2
    /\ Len(sent) = 2

(***************************************************************************)
(* Rounds of _mongoc_write_opquery.                                        *)
(***************************************************************************)
\* no record is by itself too large for a command
QueryPlainPayload ==
    \A k \in 1..Len(command.payload) :
       ~_mongoc_write_command_will_overflow(
           QueryOverhead(command.type), 1 + command.payload[k] + 2 + 5, 0,
           server.max_bson_obj_size, server.max_write_batch_size)

\* rounds 1 and 2 were sent with success, round 2 reports a write error,
\* and records remain after round 2
RoundTwoWriteError ==
    /\ QueryPlainPayload
    /\ Len(sent) >= 2
    /\ sent[1].ret /\ ~HasWriteErrors(sent[1].reply)
    /\ sent[2].ret /\ HasWriteErrors(sent[2].reply)
    /\ sent[1].count + sent[2].count < Len(command.payload)

(***************************************************************************)
(* C6.  When a command needs three rounds and the reply of round 2 reports *)
(* a server write error, an ordered command attempts no round 3 and an     *)
(* unordered command does attempt round 3.                                 *)
(***************************************************************************)
C6_OrderedStopsAfterRoundTwo ==
    RoundTwoWriteError =>
       /\ command.flags.ordered => Len(sent) = 2
       /\ (~command.flags.ordered /\ pc = "done") => Len(sent) >= 3

(***************************************************************************)
(* C7.  In every round the offset handed to the merge is the caller's      *)
(* starting offset plus the zero-based position in the command of the      *)
(* first record of that round.                                             *)
(***************************************************************************)
C7_OffsetIsFirstRecordPosition ==
    \A j \in 1..Len(sent) :
       sent[j].offset = start_offset + (RecordAt(sent[j].start) - 1)

(***************************************************************************)
(* C8 as stated.  A failed send, with an empty or with a non-empty reply,  *)
(* sets failed and must_stop and is the last round of the command.         *)
(***************************************************************************)
C8_FailedSendIsTerminal ==
    \A j \in 1..Len(sent) :
       ~sent[j].ret =>
          /\ result.failed
          /\ result.must_stop
          /\ j = Len(sent)

(***************************************************************************)
(* C8 as amended.  A failed send sets failed.  With an empty reply (or a   *)
(* command that could not be assembled) it sets must_stop and is the last  *)
(* round, ordered or unordered.  With a non-empty reply it does not set    *)
(* must_stop: it is the last round of an ordered command, and an unordered *)
(* command goes on until the payload is consumed.                          *)
(***************************************************************************)
C8_FailedSendByReply ==
    /\ \A j \in 1..Len(sent) :
          ~sent[j].ret =>
             /\ result.failed
             /\ bson_empty(sent[j].reply) => j = Len(sent)
             /\ command.flags.ordered => j = Len(sent)
    /\ result.must_stop =
          (\E j \in 1..Len(sent) : ~sent[j].ret /\ bson_empty(sent[j].reply))
    /\ (pc = "done" /\ ~command.flags.ordered /\ ~result.must_stop)
          => data_offset = PayloadLen

\* an unordered command: round 1 fails with a non-empty reply and round 2
\* follows; round 2 fails with an empty reply and ends the command although
\* a record remains
C8_Witness ==
    /\ ~command.flags.ordered
    /\ Len(sent) = 2
    /\ sent[1].assembled /\ ~sent[1].ret /\ ~bson_empty(sent[1].reply)
    /\ sent[2].assembled /\ ~sent[2].ret /\ bson_empty(sent[2].reply)
    /\ pc = "done"
    /\ data_offset < PayloadLen

(***************************************************************************)
(* Merging replies: _mongoc_write_result_merge applied to a fresh result,  *)
(* up to MaxMerges times, each time with any of the replies below at any   *)
(* of the offsets.  sent logs the replies merged and their offsets.        *)
(***************************************************************************)
Upsert(idx, id) == DocElem(<<Int32Field("index", idx), OidField("_id", id)>>)

MergeReplies ==
    { EmptyReply,
      OkReply(1),
      [OkReply(3) EXCEPT !.has_upserted = TRUE,
                         !.upserted = <<Upsert(0, "X")>>],
      [OkReply(1) EXCEPT !.has_upserted = TRUE,
                         !.upserted = <<Upsert(0, "X"), Upsert(1, "Y")>>,
                         !.has_nModified = TRUE, !.nModified = 0],
      [OkReply(2) EXCEPT !.has_upserted = TRUE, !.upserted = <<>>,
                         !.has_nModified = TRUE, !.nModified = 2],
      [OkReply(2) EXCEPT !.has_nModified = TRUE, !.nModified = 1],
      [OkReply(0) EXCEPT !.has_writeErrors = TRUE,
                         !.writeErrors = <<WriteError(1, 11000, "dup")>>],
      [OkReply(1) EXCEPT
         !.has_writeErrors = TRUE,
         !.writeErrors =
            <<DocElem(<<Int32Field("code", 2), Int32Field("index", 0),
                        Utf8Field("errmsg", "bad value"),
                        Utf8Field("errInfo", "x")>>),
              ScalarElem,
              WriteError(2, 11000, "dup key")>>,
         !.has_wce = TRUE, !.writeConcernError = WriteConcernErrorDoc],
      [OkReply(1) EXCEPT !.has_writeErrors = TRUE, !.writeErrors = <<>>,
                         !.has_wce = TRUE,
                         !.writeConcernError = WriteConcernErrorDoc],
      [OkReply(0) EXCEPT !.has_writeErrors = TRUE,
                         !.writeErrors = <<WriteError(0, 0, "unknown")>>] }

MergeOffsets == {0, 3, 10}

InitMerge ==
    /\ command \in {[type |-> t, flags |-> [ordered |-> TRUE],
                     payload |-> <<MinDocLen>>, n_documents |-> 1] :
                       t \in Types}
    /\ server = [max_bson_obj_size |-> MaxBsonObjSize, max_msg_size |-> 0,
                 max_write_batch_size |-> 0,
                 max_wire_version |-> WIRE_VERSION_OP_MSG]
    /\ start_offset = 0
    /\ index_offset = 0
    /\ offset = 0
    /\ pc = "merge"
    /\ write_concern = AcknowledgedWrite
    /\ InitLocals

MergeStep ==
    /\ pc = "merge"
    /\ Len(sent) < MaxMerges
    /\ \E reply \in MergeReplies, off \in MergeOffsets :
         /\ result' = _mongoc_write_result_merge(result, command.type, reply,
                                                 off)
         /\ sent' = Append(sent, [reply |-> reply, offset |-> off])
    /\ UNCHANGED <<command, server, callVars, pc, msgVars, queryVars, start_offset,
                   tooLarge>>

NextMerge == MergeStep

SpecMerge == InitMerge /\ [][NextMerge]_vars

(***************************************************************************)
(* C9.  result.writeErrors holds, in merge order and within a reply in     *)
(* reply order, one document for each document element of the writeErrors  *)
(* arrays merged: the same fields in the same order, "index" replaced by   *)
(* index + offset and every other field unchanged.                         *)
(***************************************************************************)
\* the document elements of the merged writeErrors arrays, with the offset
\* each was merged at
RECURSIVE MergedErrors(_)
MergedErrors(log) ==
    IF log = <<>> THEN <<>>
    ELSE LET docs == SelectSeq(Head(log).reply.writeErrors,
                               LAMBDA e : e.t = "document")
         IN [j \in 1..Len(docs) |->
               [doc |-> docs[j].doc, off |-> Head(log).offset]]
            \o MergedErrors(Tail(log))

C9_WriteErrorsRebased ==
    LET es == MergedErrors(sent)
    IN /\ Len(result.writeErrors) = Len(es)
       /\ \A j \in 1..Len(es) :
             LET got == result.writeErrors[j]
                 src == es[j].doc
             IN /\ got.t = "document"
                /\ Len(got.doc) = Len(src)
                /\ \A f \in 1..Len(src) :
                      IF src[f].key = "index"
                      THEN got.doc[f] =
                              Int32Field("index", src[f].i + es[j].off)
                      ELSE got.doc[f] = src[f]

\* replies merged at offsets 0 and 3, the second reporting index 1: the
\* entry ends with index 4
C9_Witness ==
    /\ Len(sent) = 2
    /\ sent[1].offset = 0 /\ sent[1].reply = OkReply(1)
    /\ sent[2].offset = 3
    /\ sent[2].reply.writeErrors = <<WriteError(1, 11000, "dup")>>
    /\ result.writeErrors = <<WriteError(4, 11000, "dup")>>

(***************************************************************************)
(* C10.  For an update command the counters are sums over the replies      *)
(* merged: upserted of the number u of upserted entries, matched of        *)
(* max(0, n - u) when the reply has an upserted array and of n when it has *)
(* none, modified of nModified when present; upsertedIds lists             *)
(* (offset + index, _id) for every upserted entry, in merge order.         *)
(***************************************************************************)
RECURSIVE MergedUpserts(_)
MergedUpserts(log) ==
    IF log = <<>> THEN <<>>
    ELSE [j \in 1..Len(Head(log).reply.upserted) |->
            LET e == Head(log).reply.upserted[j].doc
            IN <<Head(log).offset + e[1].i, e[2].s>>]
         \o MergedUpserts(Tail(log))

C10_UpdateAccounting ==
    command.type = "update" =>
       /\ result.nUpserted =
             SumLens([j \in 1..Len(sent) |-> Len(sent[j].reply.upserted)])
       /\ result.nMatched =
             SumLens([j \in 1..Len(sent) |->
                LET r == sent[j].reply
                IN IF r.has_upserted
                   THEN IF r.n - Len(r.upserted) > 0
                        THEN r.n - Len(r.upserted) ELSE 0
                   ELSE r.n])
       /\ result.nModified =
             SumLens([j \in 1..Len(sent) |->
                IF sent[j].reply.has_nModified THEN sent[j].reply.nModified
                ELSE 0])
       /\ Len(result.upserted) = Len(MergedUpserts(sent))
       /\ \A j \in 1..Len(result.upserted) :
             LET d == result.upserted[j].doc
             IN /\ d[1].key = "index" /\ d[1].i = MergedUpserts(sent)[j][1]
                /\ d[2].key = "_id" /\ d[2].s = MergedUpserts(sent)[j][2]

\* {n: 3, upserted: [{index: 0, _id: X}]} merged at offset 10
C10_Witness ==
    /\ command.type = "update"
    /\ Len(sent) = 1
    /\ sent[1].offset = 10
    /\ sent[1].reply.n = 3
    /\ sent[1].reply.upserted = <<Upsert(0, "X")>>
    /\ result.nUpserted = 1
    /\ result.nMatched = 2
    /\ result.upserted = <<Upsert(10, "X")>>

(***************************************************************************)
(* _set_error_from_response: the first code found and all the messages of  *)
(* the documents of bson_array.  st is the state of the scan: the code     *)
(* found so far, the text of compound_err and the counter i.               *)
(***************************************************************************)
SeparatorAfter_Always(i, n_keys) == TRUE

\* if (i < n_keys - 1) bson_string_append (compound_err, ", ")
SeparatorAfter(i, n_keys) == i < n_keys - 1

ErrmsgAppended(str, errmsg, i, n_keys) ==
    IF n_keys > 1
    THEN str \o "\"" \o errmsg \o "\""
             \o (IF SeparatorAfter(i, n_keys) THEN ", " ELSE "")
    ELSE str \o errmsg

\* if (BSON_ITER_IS_KEY (&doc_iter, "code") && code == 0)
FirstCode(code, f) == IF code = 0 THEN bson_iter_int32(f) ELSE code

RECURSIVE ScanErrorDoc(_, _, _)
ScanErrorDoc(doc, st, n_keys) ==
    IF doc = <<>> THEN st
    ELSE LET f == Head(doc)
             s1 == IF f.key = "code"
                   THEN [st EXCEPT !.code = FirstCode(st.code, f)]
                   ELSE IF f.key = "errmsg"
                   THEN [st EXCEPT !.str = ErrmsgAppended(st.str, f.s, st.i,
                                                          n_keys)]
                   ELSE st
         IN ScanErrorDoc(Tail(doc), s1, n_keys)

RECURSIVE ScanErrorArray(_, _, _)
ScanErrorArray(ar, st, n_keys) ==
    IF ar = <<>> THEN st
    ELSE LET e == Head(ar)
             s1 == IF e.t = "document"
                   THEN [ScanErrorDoc(e.doc, st, n_keys) EXCEPT !.i = @ + 1]
                   ELSE st
         IN ScanErrorArray(Tail(ar), s1, n_keys)

_set_error_from_response(bson_array, domain, error_type, error) ==
    LET n_keys == Len(bson_array)
        start == [code |-> 0, i |-> 0,
                  str |-> IF n_keys > 1
                          THEN "Multiple " \o error_type \o " errors: "
                          ELSE ""]
        st == ScanErrorArray(bson_array, start, n_keys)
    IN IF bson_array # <<>> /\ st.code # 0 /\ st.str # ""
       THEN [domain |-> domain, code |-> st.code, message |-> st.str]
       ELSE error

(***************************************************************************)
(* _mongoc_write_result_complete                                           *)
(***************************************************************************)
CompleteDomain_NoOverride(error_api_version, err_domain_override, res) ==
    IF error_api_version >= MONGOC_ERROR_API_VERSION_2 THEN "server"
    ELSE IF res.error.domain # "" THEN res.error.domain
    ELSE "collection"

CompleteDomain(error_api_version, err_domain_override, res) ==
    IF error_api_version >= MONGOC_ERROR_API_VERSION_2 THEN "server"
    ELSE IF err_domain_override # "" THEN err_domain_override
    ELSE IF res.error.domain # "" THEN res.error.domain
    ELSE "collection"

CompleteBson_NoLists(res) ==
    <<[key |-> "nInserted", v |-> res.nInserted],
      [key |-> "nMatched", v |-> res.nMatched],
      [key |-> "nModified", v |-> res.nModified],
      [key |-> "nRemoved", v |-> res.nRemoved],
      [key |-> "nUpserted", v |-> res.nUpserted],
      [key |-> "writeErrors", v |-> res.writeErrors]>>

\* the fields appended to bson for an acknowledged write
CompleteBson(res) ==
    <<[key |-> "nInserted", v |-> res.nInserted],
      [key |-> "nMatched", v |-> res.nMatched],
      [key |-> "nModified", v |-> res.nModified],
      [key |-> "nRemoved", v |-> res.nRemoved],
      [key |-> "nUpserted", v |-> res.nUpserted]>>
    \o (IF res.upserted # <<>>
        THEN <<[key |-> "upserted", v |-> res.upserted]>> ELSE <<>>)
    \o <<[key |-> "writeErrors", v |-> res.writeErrors]>>
    \o (IF res.n_writeConcernErrors # 0
        THEN <<[key |-> "writeConcernErrors", v |-> res.writeConcernErrors]>>
        ELSE <<>>)

CompleteError_WriteErrorsOnly(res, domain) ==
    _set_error_from_response(res.writeErrors, domain, "write", res.error)

\* if (!result->error.code) _set_error_from_response (writeConcernErrors)
CompleteError(res, domain) ==
    LET e1 == _set_error_from_response(res.writeErrors, domain, "write",
                                       res.error)
    IN IF e1.code = 0
       THEN _set_error_from_response(res.writeConcernErrors, "write_concern",
                                     "write concern", e1)
       ELSE e1

CompleteReturn_IgnoreCode(res) == ~res.failed

\* RETURN (!result->failed && result->error.code == 0)
CompleteReturn(res) == ~res.failed /\ res.error.code = 0

\* the domains a caller passes as err_domain_override, "" for none
DomainOverrides == {"", "command"}

ErrorApiVersions == {1, 2}

\* the caller passes bson and error, or NULL for bson
_mongoc_write_result_complete ==
    /\ pc \in {"done", "assemble_failed", "rejected", "merge"}
    /\ \E error_api_version \in ErrorApiVersions,
          err_domain_override \in DomainOverrides, has_bson \in BOOLEAN :
         LET domain == CompleteDomain(error_api_version, err_domain_override,
                                      result)
             res == [result EXCEPT !.error = CompleteError(result, domain)]
         IN /\ result' = res
            /\ complete' =
                  [called |-> TRUE,
                   error_api_version |-> error_api_version,
                   err_domain_override |-> err_domain_override,
                   before |-> result,
                   has_bson |-> has_bson,
                   built |-> has_bson
                             /\ mongoc_write_concern_is_acknowledged(
                                   write_concern),
                   bson |-> IF has_bson
                               /\ mongoc_write_concern_is_acknowledged(
                                     write_concern)
                            THEN CompleteBson(result) ELSE <<>>,
                   error |-> res.error,
                   ret |-> CompleteReturn(res)]
    /\ pc' = "completed"
    /\ UNCHANGED <<command, server, msgVars, queryVars, start_offset, sent,
                   tooLarge, write_concern, path, appended>>

(***************************************************************************)
(* _mongoc_write_command_execute: the checks in the order of the code,     *)
(* then the call of one of the three functions.                            *)
(***************************************************************************)
\* MONGOC_ERROR_COMMAND with MONGOC_ERROR_COMMAND_INVALID_ARG
InvalidArg(msg) == [domain |-> "command", code |-> 22, message |-> msg]

\* MONGOC_ERROR_COMMAND with MONGOC_ERROR_PROTOCOL_BAD_WIRE_VERSION
BadWireVersion(msg) == [domain |-> "command", code |-> 15, message |-> msg]

\* MONGOC_ERROR_COLLECTION_{DELETE,INSERT,UPDATE}_FAILED
_empty_error(type) ==
    [domain |-> "collection",
     code |-> [delete |-> 25, insert |-> 23, update |-> 24][type],
     message |-> "Cannot do an empty " \o type]

BypassSet == command.flags.bypass_document_validation # "default"

\* an early EXIT of execute: error is set, failed as the branch sets it
ExecuteExit(err, failed) ==
    /\ result' = [result EXCEPT !.error = err, !.failed = failed]
    /\ pc' = "rejected"
    /\ UNCHANGED <<command, server, msgVars, queryVars, start_offset, sent,
                   tooLarge, callVars>>

ExecuteInvalidWriteConcern ==
    /\ pc = "execute"
    /\ ~mongoc_write_concern_is_valid(write_concern)
    /\ ExecuteExit(InvalidArg("The write concern is invalid."), TRUE)

ExecuteCollationUnacknowledged ==
    /\ pc = "execute"
    /\ mongoc_write_concern_is_valid(write_concern)
    /\ command.flags.has_collation
    /\ ~mongoc_write_concern_is_acknowledged(write_concern)
    /\ ExecuteExit(
          InvalidArg("Cannot set collation for unacknowledged writes"), TRUE)

ExecuteCollationUnsupported ==
    /\ pc = "execute"
    /\ mongoc_write_concern_is_valid(write_concern)
    /\ command.flags.has_collation
    /\ mongoc_write_concern_is_acknowledged(write_concern)
    /\ server.max_wire_version < WIRE_VERSION_COLLATION
    /\ ExecuteExit(
          BadWireVersion("Collation is not supported by the selected server"),
          TRUE)

\* the checks on collation passed
CollationOk ==
    /\ mongoc_write_concern_is_valid(write_concern)
    /\ command.flags.has_collation =>
          /\ mongoc_write_concern_is_acknowledged(write_concern)
          /\ server.max_wire_version >= WIRE_VERSION_COLLATION

ExecuteBypassUnacknowledged ==
    /\ pc = "execute"
    /\ CollationOk
    /\ BypassSet
    /\ ~mongoc_write_concern_is_acknowledged(write_concern)
    /\ ExecuteExit(
          InvalidArg(
            "Cannot set bypassDocumentValidation for unacknowledged writes"),
          TRUE)

FlagsOk_NoBypass == CollationOk

\* every check before the one on the payload passed
FlagsOk ==
    /\ CollationOk
    /\ BypassSet => mongoc_write_concern_is_acknowledged(write_concern)

\* _empty_error: failed is left as it is
ExecuteEmpty ==
    /\ pc = "execute"
    /\ FlagsOk
    /\ PayloadLen = 0
    /\ ExecuteExit(_empty_error(command.type), result.failed)

ExecuteOpmsg ==
    /\ pc = "execute"
    /\ FlagsOk
    /\ PayloadLen # 0
    /\ server.max_wire_version >= WIRE_VERSION_OP_MSG
    /\ path' = Append(path, "_mongoc_write_opmsg")
    /\ pc' = "opmsg"
    /\ UNCHANGED <<command, server, result, msgVars, queryVars, start_offset,
                   sent, tooLarge, write_concern, complete, appended>>

ExecuteOpquery ==
    /\ pc = "execute"
    /\ FlagsOk
    /\ PayloadLen # 0
    /\ server.max_wire_version < WIRE_VERSION_OP_MSG
    /\ mongoc_write_concern_is_acknowledged(write_concern)
    /\ path' = Append(path, "_mongoc_write_opquery")
    /\ pc' = "again"
    /\ UNCHANGED <<command, server, result, msgVars, queryVars, start_offset,
                   sent, tooLarge, write_concern, complete, appended>>

\* what gLegacyWriteOps[type] may leave in result
LegacyOutcomes ==
    {result, [result EXCEPT !.failed = TRUE, !.error = StreamError]}

ExecuteLegacy ==
    /\ pc = "execute"
    /\ FlagsOk
    /\ PayloadLen # 0
    /\ server.max_wire_version < WIRE_VERSION_OP_MSG
    /\ ~mongoc_write_concern_is_acknowledged(write_concern)
    /\ path' = Append(path, gLegacyWriteOps[command.type])
    /\ result' \in LegacyOutcomes
    /\ pc' = "done"
    /\ UNCHANGED <<command, server, msgVars, queryVars, start_offset,
                   sent, tooLarge, write_concern, complete, appended>>

(***************************************************************************)
(* Executions of _mongoc_write_command_execute followed by                 *)
(* _mongoc_write_result_complete.                                          *)
(***************************************************************************)
ExecDocLens == {MinDocLen, BigLen}

ExecFlags == {[ordered |-> o, has_collation |-> c,
               bypass_document_validation |-> b] :
                 o \in BOOLEAN, c \in BOOLEAN, b \in {"default", "true"}}

WireVersions == {WIRE_VERSION_COLLATION - 1, WIRE_VERSION_COLLATION,
                 WIRE_VERSION_OP_MSG}

WriteConcerns == {[valid |-> v, w |-> w] : v \in BOOLEAN, w \in 0..2}

Init ==
    /\ command \in {[type |-> t, flags |-> f, payload |-> p,
                     n_documents |-> Len(p)] :
                       t \in Types, f \in ExecFlags,
                       p \in {<<>>} \cup Payloads(ExecDocLens)}
    /\ server \in {[max_bson_obj_size |-> MaxBsonObjSize,
                    max_msg_size |-> OpmsgHeader(command.type) + 10,
                    max_write_batch_size |-> c,
                    max_wire_version |-> v] :
                      c \in {0, 1}, v \in WireVersions}
    /\ write_concern \in WriteConcerns
    /\ start_offset = 0
    /\ index_offset = start_offset
    /\ offset = start_offset
    /\ pc = "execute"
    /\ InitLocals

Next ==
    \/ ExecuteInvalidWriteConcern
    \/ ExecuteCollationUnacknowledged
    \/ ExecuteCollationUnsupported
    \/ ExecuteBypassUnacknowledged
    \/ ExecuteEmpty
    \/ ExecuteOpmsg
    \/ ExecuteOpquery
    \/ ExecuteLegacy
    \/ OpmsgAssembleFail
    \/ OpmsgAssemble
    \/ OpmsgSkip
    \/ OpmsgAdd
    \/ OpmsgAddShip
    \/ OpmsgShipFull
    \/ QueryTooLarge
    \/ QuerySend
    \/ QueryAssembleFail
    \/ _mongoc_write_result_complete

Spec == Init /\ [][Next]_vars

(***************************************************************************)
(* What one execution has received: the replies of the batches in sent.    *)
(***************************************************************************)
\* the counter of the command's kind
KindCounter(res) ==
    CASE command.type = "insert" -> res.nInserted
      [] command.type = "delete" -> res.nRemoved
      [] command.type = "update" -> res.nMatched

\* the batches whose reply reports write errors, in shipping order
ErrorBatches == SelectSeq(sent, LAMBDA b : HasWriteErrors(b.reply))

\* the records of the batches shipped so far
ShippedCount == SumLens([j \in 1..Len(sent) |-> sent[j].count])

(***************************************************************************)
(* C11.  In every state of an execution, under either batcher, result      *)
(* holds exactly the replies of the batches shipped so far, each merged    *)
(* once and in shipping order: the counter of the command's kind is the    *)
(* sum of n over these replies and at most the number of records shipped,  *)
(* the other counters are zero, writeErrors lists the errors of the        *)
(* replies in shipping order, each re-based by its batch's offset, and     *)
(* writeConcernErrors has one entry for each reply that carried one.       *)
(* Records skipped or never shipped add nothing.                           *)
(***************************************************************************)
C11_RepliesMergedOnceInOrder ==
    /\ KindCounter(result) =
          SumLens([j \in 1..Len(sent) |->
                     IF sent[j].reply.has_n THEN sent[j].reply.n ELSE 0])
    /\ KindCounter(result) <= ShippedCount
    /\ result.nInserted + result.nRemoved + result.nMatched
          + result.nModified + result.nUpserted = KindCounter(result)
    /\ Len(result.writeErrors) = Len(ErrorBatches)
    /\ \A j \in 1..Len(ErrorBatches) :
          result.writeErrors[j] =
             WriteError(ErrorBatches[j].offset, 11000, "dup")
    /\ result.n_writeConcernErrors =
          Cardinality({j \in 1..Len(sent) : sent[j].reply.has_wce})
    /\ Len(result.writeConcernErrors) = result.n_writeConcernErrors

\* three records, one too large and skipped, the other two shipped in two
\* batches and both acknowledged
C11_Witness ==
    /\ pc = "done"
    /\ path # <<>>
    /\ command.n_documents = 3
    /\ Len(tooLarge) > 0
    /\ Len(sent) = 2
    /\ KindCounter(result) = 2

(***************************************************************************)
(* _mongoc_write_result_complete on a result built by merges: any of the   *)
(* replies of MergeReplies, then the call, for an acknowledged or an       *)
(* unacknowledged write.                                                   *)
(***************************************************************************)
InitComplete ==
    /\ command \in {[type |-> t, flags |-> [ordered |-> TRUE],
                     payload |-> <<MinDocLen>>, n_documents |-> 1] :
                       t \in Types}
    /\ server = [max_bson_obj_size |-> MaxBsonObjSize, max_msg_size |-> 0,
                 max_write_batch_size |-> 0,
                 max_wire_version |-> WIRE_VERSION_OP_MSG]
    /\ write_concern \in {[valid |-> TRUE, w |-> w] : w \in {0, 1}}
    /\ start_offset = 0
    /\ index_offset = 0
    /\ offset = 0
    /\ pc = "merge"
    /\ InitLocals

NextComplete ==
    \/ MergeStep
    \/ _mongoc_write_result_complete

SpecComplete == InitComplete /\ [][NextComplete]_vars

\* the int32 under key k of a document, 0 when there is none
FieldInt(doc, k) ==
    IF bson_iter_find(doc, k) = 0 THEN 0 ELSE doc[bson_iter_find(doc, k)].i

\* the text under key k of a document
FieldText(doc, k) ==
    IF bson_iter_find(doc, k) = 0 THEN "" ELSE doc[bson_iter_find(doc, k)].s

\* the first non-zero code of a list of error documents, 0 when there is none
FirstNonZeroCode(es) ==
    IF \E j \in 1..Len(es) : FieldInt(es[j].doc, "code") # 0
    THEN FieldInt(es[CHOOSE j \in 1..Len(es) :
                        /\ FieldInt(es[j].doc, "code") # 0
                        /\ \A h \in 1..(j - 1) :
                              FieldInt(es[h].doc, "code") = 0].doc, "code")
    ELSE 0

\* "m1", "m2", ..., "mk"
RECURSIVE QuotedList(_)
QuotedList(es) ==
    IF Len(es) = 1 THEN "\"" \o FieldText(es[1].doc, "errmsg") \o "\""
    ELSE "\"" \o FieldText(es[1].doc, "errmsg") \o "\", "
           \o QuotedList(Tail(es))

(***************************************************************************)
(* C12.  After _mongoc_write_result_complete on a result whose writeErrors *)
(* list is non-empty and holds a non-zero code: error.code is the first    *)
(* non-zero code in document order; error.message is the message of the    *)
(* sole entry when there is one entry, else "Multiple write errors: "      *)
(* followed by every entry's message in double quotes, separated by ", ",  *)
(* in document order.                                                      *)
(***************************************************************************)
C12_WriteErrorsReduced ==
    (/\ complete.called
     /\ complete.before.writeErrors # <<>>
     /\ FirstNonZeroCode(complete.before.writeErrors) # 0) =>
       LET es == complete.before.writeErrors
       IN /\ complete.error.code = FirstNonZeroCode(es)
          /\ result.error = complete.error
          /\ complete.error.message =
                IF Len(es) = 1 THEN FieldText(es[1].doc, "errmsg")
                ELSE "Multiple write errors: " \o QuotedList(es)

\* two entries, "bad value" with code 2 and "dup key" with code 11000
C12_Witness ==
    /\ complete.called
    /\ Len(complete.before.writeErrors) = 2
    /\ complete.error.code = 2
    /\ complete.error.message =
          "Multiple write errors: \"bad value\", \"dup key\""

(***************************************************************************)
(* C13.  After _mongoc_write_result_complete on any accumulated result,    *)
(* also one whose error was set during the execution: when writeErrors     *)
(* gives no code and writeConcernErrors holds a non-zero code, error is    *)
(* the reduction of writeConcernErrors in the write-concern domain; when   *)
(* writeErrors gives a code, error carries that code and not the           *)
(* write-concern domain.                                                   *)
(***************************************************************************)
C13_WriteConcernErrorSurfaces ==
    complete.called =>
       LET b == complete.before
       IN /\ (/\ FirstNonZeroCode(b.writeErrors) = 0
              /\ FirstNonZeroCode(b.writeConcernErrors) # 0) =>
                /\ complete.error.domain = "write_concern"
                /\ complete.error.code =
                      FirstNonZeroCode(b.writeConcernErrors)
          /\ FirstNonZeroCode(b.writeErrors) # 0 =>
                /\ complete.error.code = FirstNonZeroCode(b.writeErrors)
                /\ complete.error.domain # "write_concern"

(***************************************************************************)
(* C13 as amended.  When writeErrors gives a code, error carries that code *)
(* and not the write-concern domain.  When it gives none and error.code    *)
(* was 0 before the call, a non-zero code in writeConcernErrors makes      *)
(* error the reduction of writeConcernErrors in the write-concern domain.  *)
(* When it gives none and error.code was already set during the            *)
(* execution, error is left as it was, whatever writeConcernErrors holds.  *)
(***************************************************************************)
C13_WriteConcernErrorIfNoCode ==
    complete.called =>
       LET b == complete.before
       IN /\ FirstNonZeroCode(b.writeErrors) # 0 =>
                /\ complete.error.code = FirstNonZeroCode(b.writeErrors)
                /\ complete.error.domain # "write_concern"
          /\ (/\ FirstNonZeroCode(b.writeErrors) = 0
              /\ b.error.code = 0
              /\ FirstNonZeroCode(b.writeConcernErrors) # 0) =>
                /\ complete.error.domain = "write_concern"
                /\ complete.error.code =
                      FirstNonZeroCode(b.writeConcernErrors)
          /\ (FirstNonZeroCode(b.writeErrors) = 0 /\ b.error.code # 0) =>
                complete.error = b.error

\* a record was rejected as too large, which set error; a later batch was
\* answered with a write concern error; error is still the too-large error
C13_Witness ==
    /\ complete.called
    /\ tooLarge # <<>>
    /\ \A j \in 1..Len(sent) : sent[j].ret
    /\ complete.before.writeErrors = <<>>
    /\ complete.before.writeConcernErrors # <<>>
    /\ complete.error.domain = "bson"
    /\ complete.error = complete.before.error

(***************************************************************************)
(* C14.  _mongoc_write_result_complete returns true exactly when failed is *)
(* false and error.code is 0 after the reductions; so it returns false     *)
(* after an execution in which a reply carried a write error, a record was *)
(* rejected as too large, or a send failed.                                *)
(***************************************************************************)
C14_CompleteReturnsFailure ==
    complete.called =>
       /\ complete.ret = (~result.failed /\ result.error.code = 0)
       /\ (\/ \E j \in 1..Len(sent) : HasWriteErrors(sent[j].reply)
           \/ tooLarge # <<>>
           \/ \E j \in 1..Len(sent) : ~sent[j].ret) => ~complete.ret

\* every send succeeded and only a write concern error was reported:
\* failed is false and the call still returns false
C14_Witness ==
    /\ complete.called
    /\ Len(sent) = 2
    /\ \A j \in 1..Len(sent) : sent[j].ret
    /\ ~result.failed
    /\ result.error.code = 64
    /\ ~complete.ret

(***************************************************************************)
(* C15.  When the write concern is invalid, collation or                   *)
(* bypassDocumentValidation is requested on an unacknowledged write,       *)
(* collation is not supported by the server's wire version, or the command *)
(* has no sub-operation, execute calls none of the three functions and     *)
(* sends nothing, counters and lists stay as initialised, error.code is    *)
(* non-zero, and _mongoc_write_result_complete returns false.              *)
(***************************************************************************)
Rejected ==
    \/ ~write_concern.valid
    \/ command.flags.has_collation /\ write_concern.w = 0
    \/ command.flags.bypass_document_validation # "default"
         /\ write_concern.w = 0
    \/ command.flags.has_collation
         /\ server.max_wire_version < WIRE_VERSION_COLLATION
    \/ command.n_documents = 0

C15_RejectedBeforeAnyBatch ==
    (Rejected /\ pc # "execute") =>
       /\ path = <<>>
       /\ sent = <<>>
       /\ pc \in {"rejected", "completed"}
       /\ [result EXCEPT !.error = NoError, !.failed = FALSE] =
             _mongoc_write_result_init
       /\ result.error.code # 0
       /\ complete.called => ~complete.ret

\* an empty command: the error is set, failed is not, and the call
\* reports the failure
C15_Witness ==
    /\ command.n_documents = 0
    /\ write_concern.valid
    /\ complete.called
    /\ ~result.failed
    /\ result.error.message = "Cannot do an empty update"
    /\ ~complete.ret

(***************************************************************************)
(* C16.  When none of the checks rejects the call, execute runs exactly    *)
(* one function: _mongoc_write_opmsg iff the wire version supports OP_MSG, *)
(* acknowledged or not; else _mongoc_write_opquery iff the write is        *)
(* acknowledged; else the legacy function of the command's kind.           *)
(***************************************************************************)
C16_ExactlyOnePath ==
    (~Rejected /\ pc # "execute") =>
       path = << IF server.max_wire_version >= WIRE_VERSION_OP_MSG
                 THEN "_mongoc_write_opmsg"
                 ELSE IF write_concern.w # 0
                 THEN "_mongoc_write_opquery"
                 ELSE gLegacyWriteOps[command.type] >>

\* an unacknowledged delete to a server without OP_MSG
C16_Witness ==
    /\ path = <<"_mongoc_write_command_delete_legacy">>
    /\ write_concern.w = 0
    /\ command.type = "delete"
    /\ pc = "done"

(***************************************************************************)
(* C18.  _mongoc_write_result_complete builds the outcome document only    *)
(* for an acknowledged write (and a caller that asks for it); the document *)
(* then holds the five counters as accumulated, "upserted" only if the     *)
(* list is non-empty, "writeErrors" always, "writeConcernErrors" only if   *)
(* one was merged; the call changes nothing of the result but error.       *)
(***************************************************************************)
\* the value under key k of the outcome document
BsonValue(bson, k) ==
    bson[CHOOSE j \in 1..Len(bson) : bson[j].key = k].v

BsonKeys(bson) == {bson[j].key : j \in 1..Len(bson)}

C18_OutcomeDocument ==
    complete.called =>
       LET b == complete.before
           doc == complete.bson
       IN /\ complete.built = (complete.has_bson /\ write_concern.w # 0)
          /\ ~complete.built => doc = <<>>
          /\ complete.built =>
                /\ BsonKeys(doc) =
                      {"nInserted", "nMatched", "nModified", "nRemoved",
                       "nUpserted", "writeErrors"}
                      \cup (IF b.upserted # <<>> THEN {"upserted"} ELSE {})
                      \cup (IF b.writeConcernErrors # <<>>
                            THEN {"writeConcernErrors"} ELSE {})
                /\ Len(doc) = Cardinality(BsonKeys(doc))
                /\ BsonValue(doc, "nInserted") = b.nInserted
                /\ BsonValue(doc, "nMatched") = b.nMatched
                /\ BsonValue(doc, "nModified") = b.nModified
                /\ BsonValue(doc, "nRemoved") = b.nRemoved
                /\ BsonValue(doc, "nUpserted") = b.nUpserted
                /\ BsonValue(doc, "writeErrors") = b.writeErrors
                /\ b.upserted # <<>> =>
                      BsonValue(doc, "upserted") = b.upserted
                /\ b.writeConcernErrors # <<>> =>
                      BsonValue(doc, "writeConcernErrors") =
                         b.writeConcernErrors
          /\ [result EXCEPT !.error = b.error] = b

\* an update with an upserted entry and a write concern error, and no
\* write error: the document has "upserted", "writeConcernErrors" and an
\* empty "writeErrors"
C18_Witness ==
    /\ complete.called
    /\ complete.built
    /\ command.type = "update"
    /\ complete.before.nUpserted = 1
    /\ complete.before.n_writeConcernErrors = 1
    /\ BsonValue(complete.bson, "upserted") = <<Upsert(10, "X")>>
    /\ BsonValue(complete.bson, "writeErrors") = <<>>
    /\ Len(BsonValue(complete.bson, "writeConcernErrors")) = 1

(***************************************************************************)
(* C19.  _mongoc_write_opmsg makes progress in every iteration: for a      *)
(* payload without an oversized record, whatever the limits, every batch   *)
(* it ships carries at least one record, so it ships at most as many       *)
(* batches as the payload has records.                                     *)
(***************************************************************************)
C19_EveryBatchCarriesARecord ==
    NoOversized =>
       /\ \A j \in 1..Len(sent) : sent[j].count > 0 /\ sent[j].size > 0
       /\ Len(sent) <= Len(command.payload)

(***************************************************************************)
(* Rounds of _mongoc_write_opquery that accept no record.                  *)
(***************************************************************************)
\* the k-th too-large round had a pending record
PendingAt(k) == tooLarge[k].pos < PayloadLen

\* something happened after the k-th too-large round: a later too-large
\* round, or a command sent from a later position
RoundAfter(k) ==
    \/ k < Len(tooLarge)
    \/ \E j \in 1..Len(sent) : sent[j].start > tooLarge[k].pos

\* no command was sent for the record of a too-large round
NothingSentAt(k) ==
    \A j \in 1..Len(sent) :
       \/ sent[j].start + sent[j].size <= tooLarge[k].pos
       \/ sent[j].start > tooLarge[k].pos

(***************************************************************************)
(* C20 as stated.  A round of _mongoc_write_opquery that accepts no record *)
(* reports the too-large error, sets failed, sends no command and ends the *)
(* function: no round follows it, ordered or unordered.                    *)
(***************************************************************************)
C20_TooLargeRoundAborts ==
    \A k \in 1..Len(tooLarge) :
       /\ result.failed
       /\ NothingSentAt(k)
       /\ pc = "done"
       /\ ~RoundAfter(k)

(***************************************************************************)
(* C20 as amended.  A round that accepts no record reports the too-large   *)
(* error (index 0, the record's length), sets failed and sends no command. *)
(* For an ordered command no round follows it.  For an unordered command   *)
(* the record is skipped and another round is started, so the function     *)
(* ends only when the payload is consumed or must_stop is set.             *)
(***************************************************************************)
C20_TooLargeRoundByOrder ==
    /\ \A k \in 1..Len(tooLarge) :
          /\ result.failed
          /\ NothingSentAt(k)
          /\ tooLarge[k].idx = 0
          /\ PendingAt(k) =>
                /\ tooLarge[k].len = command.payload[RecordAt(tooLarge[k].pos)]
                /\ command.flags.ordered => (pc = "done" /\ ~RoundAfter(k))
                /\ ~command.flags.ordered => (pc = "again" \/ RoundAfter(k))
    /\ (pc = "done" /\ ~command.flags.ordered /\ ~result.must_stop)
          => data_offset = PayloadLen

\* an unordered command whose first record is too large: the record is
\* reported and skipped, and the next round sends the second record
C20_Witness ==
    /\ ~command.flags.ordered
    /\ Len(command.payload) = 2
    /\ Len(tooLarge) = 1
    /\ tooLarge[1].pos = 0
    /\ Len(sent) = 1
    /\ sent[1].start = command.payload[1]
    /\ sent[1].ret
    /\ result.failed
    /\ pc = "done"

(***************************************************************************)
(* Building a command: _mongoc_write_command_init_{insert,update,delete}   *)
(* and the three append functions.  Here command.payload is the buffer     *)
(* byte by byte; RecordLens reads it back as the sequence of record        *)
(* lengths, which is how the batchers above see the payload.  A document   *)
(* is the sequence of its fields; an embedded document is a field of type  *)
(* "document" whose i is its length in bytes.                              *)
(***************************************************************************)
BoolField(k) == [key |-> k, t |-> "bool", i |-> 1, s |-> ""]

\* BSON_APPEND_DOCUMENT (&document, k, d): d embedded with its length
DocumentField(k, dlen) == [key |-> k, t |-> "document", i |-> dlen, s |-> ""]

ValueSize(f) ==
    CASE f.t = "int32" -> 4
      [] f.t = "bool" -> 1
      [] f.t = "oid" -> 12
      [] f.t = "utf8" -> 4 + Len(f.s) + 1
      [] f.t = "document" -> f.i

\* type byte, key and its terminator, value
ElemSize(f) == 1 + Len(f.key) + 1 + ValueSize(f)

\* doc->len: length prefix, elements, terminator
bson_len(doc) == MinDocLen + SumLens([j \in 1..Len(doc) |-> ElemSize(doc[j])])

TypeByte(f) ==
    CASE f.t = "int32" -> 16
      [] f.t = "bool" -> 8
      [] f.t = "oid" -> 7
      [] f.t = "utf8" -> 2
      [] f.t = "document" -> 3

RECURSIVE ElemBytes(_)
ElemBytes(doc) ==
    IF doc = <<>> THEN <<>>
    ELSE <<TypeByte(Head(doc))>>
           \o [j \in 1..(ElemSize(Head(doc)) - 1) |-> 255]
           \o ElemBytes(Tail(doc))

\* bson_get_data (doc): the little-endian length, the elements, a zero
bson_get_data(doc) == <<bson_len(doc), 0, 0, 0>> \o ElemBytes(doc) \o <<0>>

bson_has_field(doc, k) == bson_iter_find(doc, k) # 0

\* _mongoc_buffer_append (buffer, data, data_size)
_mongoc_buffer_append(buffer, data, data_size) ==
    buffer \o SubSeq(data, 1, data_size)

\* the records of a buffer read by their length prefixes; <<-1>> marks a
\* buffer that is not a sequence of whole records
RECURSIVE RecordLens(_)
RecordLens(buf) ==
    IF buf = <<>> THEN <<>>
    ELSE IF Len(buf) < MinDocLen \/ buf[1] < MinDocLen \/ buf[1] > Len(buf)
    THEN <<-1>>
    ELSE <<buf[1]>> \o RecordLens(SubSeq(buf, buf[1] + 1, Len(buf)))

_mongoc_write_command_init_bulk(cmd, type, flags, operation_id) ==
    [cmd EXCEPT !.type = type, !.flags = flags,
                !.operation_id = operation_id, !.payload = <<>>,
                !.n_documents = 0]

AppendCount_Twice(cmd) == cmd.n_documents + 2

\* command->n_documents++
AppendCount(cmd) == cmd.n_documents + 1

\* the _id of a document that has none comes from bson_oid_init
_mongoc_write_command_insert_append(cmd, document) ==
    LET stored == IF bson_has_field(document, "_id") THEN document
                  ELSE <<OidField("_id", "generated")>> \o document
    IN [cmd EXCEPT
          !.payload = _mongoc_buffer_append(@, bson_get_data(stored),
                                            bson_len(stored)),
          !.n_documents = AppendCount(cmd)]

AppendOpts_AssignCollation(cmd, document, opts) ==
    LET stored == IF opts.null THEN document ELSE document \o opts.doc
    IN [cmd EXCEPT
          !.flags.has_collation =
             IF opts.null THEN @ ELSE bson_has_field(opts.doc, "collation"),
          !.payload = _mongoc_buffer_append(@, bson_get_data(stored),
                                            bson_len(stored)),
          !.n_documents = cmd.n_documents + 1]

\* opts.null stands for a NULL opts
AppendOpts(cmd, document, opts) ==
    LET stored == IF opts.null THEN document ELSE document \o opts.doc
    IN [cmd EXCEPT
          !.flags.has_collation =
             IF opts.null THEN @
             ELSE @ \/ bson_has_field(opts.doc, "collation"),
          !.payload = _mongoc_buffer_append(@, bson_get_data(stored),
                                            bson_len(stored)),
          !.n_documents = AppendCount(cmd)]

_mongoc_write_command_update_append(cmd, selector, update, opts) ==
    AppendOpts(cmd, <<DocumentField("q", bson_len(selector)),
                      DocumentField("u", bson_len(update))>>, opts)

_mongoc_write_command_delete_append(cmd, selector, opts) ==
    AppendOpts(cmd, <<DocumentField("q", bson_len(selector))>>, opts)

\* if (document) _mongoc_write_command_insert_append (command, document)
_mongoc_write_command_init_insert(cmd, document, flags, operation_id, allow_bulk_op_insert) ==
    LET c == [_mongoc_write_command_init_bulk(cmd, "insert", flags,
                                              operation_id)
                EXCEPT !.allow_bulk_op_insert = allow_bulk_op_insert]
    IN IF document.null THEN c
       ELSE _mongoc_write_command_insert_append(c, document.doc)

_mongoc_write_command_init_delete(cmd, selector, opts, flags, operation_id) ==
    _mongoc_write_command_delete_append(
       _mongoc_write_command_init_bulk(cmd, "delete", flags, operation_id),
       selector, opts)

_mongoc_write_command_init_update(cmd, selector, update, opts, flags, operation_id) ==
    _mongoc_write_command_update_append(
       _mongoc_write_command_init_bulk(cmd, "update", flags, operation_id),
       selector, update, opts)

(***************************************************************************)
(* Building commands: one of the init functions on a command that was not  *)
(* initialised, then appends, up to MaxDocs records.                       *)
(***************************************************************************)
InsertDocs ==
    {<<>>, <<Int32Field("x", 1)>>, <<OidField("_id", "A")>>,
     <<Int32Field("x", 1), OidField("_id", "A")>>}

Selectors == {<<>>, <<Int32Field("x", 1)>>}

Updates == {<<Int32Field("x", 2)>>}

Null == [null |-> TRUE, doc |-> <<>>]

NonNull(d) == [null |-> FALSE, doc |-> d]

OptsDocs ==
    {Null, NonNull(<<>>), NonNull(<<BoolField("upsert")>>),
     NonNull(<<BoolField("upsert"),
               DocumentField("collation", bson_len(<<Utf8Field("locale",
                                                               "fr")>>))>>)}

BulkFlags == {[ordered |-> o, has_collation |-> c,
               bypass_document_validation |-> "default"] :
                 o \in BOOLEAN, c \in BOOLEAN}

OperationIds == {1, 2}

\* the memory of a command before it is initialised
Uninitialised ==
    [type |-> "delete",
     flags |-> [ordered |-> FALSE, has_collation |-> TRUE,
                bypass_document_validation |-> "true"],
     operation_id |-> 0, payload |-> <<255, 255, 255>>, n_documents |-> 7,
     allow_bulk_op_insert |-> FALSE]

AppendFrame ==
    UNCHANGED <<server, result, msgVars, queryVars, start_offset, sent,
                tooLarge, write_concern, path, complete>>

\* the arguments of an init call and of an append call, as logged
InitCall(type, flags, operation_id) ==
    [fn |-> "init", type |-> type, flags |-> flags,
     operation_id |-> operation_id, opts |-> Null]

AppendCall(opts) ==
    [fn |-> "append", type |-> "", flags |-> <<>>, operation_id |-> 0,
     opts |-> opts]

InitInsert ==
    /\ pc = "init"
    /\ \E document \in {Null} \cup {NonNull(d) : d \in InsertDocs},
          flags \in BulkFlags, operation_id \in OperationIds,
          allow_bulk_op_insert \in BOOLEAN :
         /\ command' = _mongoc_write_command_init_insert(
                          command, document, flags, operation_id,
                          allow_bulk_op_insert)
         /\ appended' = <<InitCall("insert", flags, operation_id)>>
                           \o (IF document.null THEN <<>>
                               ELSE <<AppendCall(Null)>>)
    /\ pc' = "append"
    /\ AppendFrame

InitUpdate ==
    /\ pc = "init"
    /\ \E selector \in Selectors, update \in Updates, opts \in OptsDocs,
          flags \in BulkFlags, operation_id \in OperationIds :
         /\ command' = _mongoc_write_command_init_update(
                          command, selector, update, opts, flags,
                          operation_id)
         /\ appended' = <<InitCall("update", flags, operation_id),
                          AppendCall(opts)>>
    /\ pc' = "append"
    /\ AppendFrame

InitDelete ==
    /\ pc = "init"
    /\ \E selector \in Selectors, opts \in OptsDocs, flags \in BulkFlags,
          operation_id \in OperationIds :
         /\ command' = _mongoc_write_command_init_delete(
                          command, selector, opts, flags, operation_id)
         /\ appended' = <<InitCall("delete", flags, operation_id),
                          AppendCall(opts)>>
    /\ pc' = "append"
    /\ AppendFrame

AppendInsert ==
    /\ pc = "append"
    /\ command.type = "insert"
    /\ command.n_documents < MaxDocs
    /\ \E document \in InsertDocs :
         command' = _mongoc_write_command_insert_append(command, document)
    /\ appended' = Append(appended, AppendCall(Null))
    /\ UNCHANGED pc
    /\ AppendFrame

AppendUpdate ==
    /\ pc = "append"
    /\ command.type = "update"
    /\ command.n_documents < MaxDocs
    /\ \E selector \in Selectors, update \in Updates, opts \in OptsDocs :
         /\ command' = _mongoc_write_command_update_append(
                          command, selector, update, opts)
         /\ appended' = Append(appended, AppendCall(opts))
    /\ UNCHANGED pc
    /\ AppendFrame

AppendDelete ==
    /\ pc = "append"
    /\ command.type = "delete"
    /\ command.n_documents < MaxDocs
    /\ \E selector \in Selectors, opts \in OptsDocs :
         /\ command' = _mongoc_write_command_delete_append(
                          command, selector, opts)
         /\ appended' = Append(appended, AppendCall(opts))
    /\ UNCHANGED pc
    /\ AppendFrame

InitAppend ==
    /\ command = Uninitialised
    /\ server = [max_bson_obj_size |-> MaxBsonObjSize, max_msg_size |-> 0,
                 max_write_batch_size |-> 0,
                 max_wire_version |-> WIRE_VERSION_OP_MSG]
    /\ write_concern = AcknowledgedWrite
    /\ start_offset = 0
    /\ index_offset = 0
    /\ offset = 0
    /\ pc = "init"
    /\ InitLocals

NextAppend ==
    \/ InitInsert
    \/ InitUpdate
    \/ InitDelete
    \/ AppendInsert
    \/ AppendUpdate
    \/ AppendDelete

SpecAppend == InitAppend /\ [][NextAppend]_vars

(***************************************************************************)
(* C17.  After an init function and any appends, n_documents is the number *)
(* of length-prefixed records in payload; every append (and an init that   *)
(* is given a document) adds exactly one whole record at the end of        *)
(* payload and changes none of the bytes before it; an insert init without *)
(* a document leaves payload empty and n_documents at 0.                   *)
(***************************************************************************)
WholeRecordsInPayload ==
    /\ \A j \in 1..Len(RecordLens(command.payload)) :
          RecordLens(command.payload)[j] >= MinDocLen
    /\ Len(RecordLens(command.payload)) = command.n_documents

\* the step appends one whole record to before and counts it
OneRecordAppended(before, count) ==
    /\ Len(command.payload') >= Len(before) + MinDocLen
    /\ SubSeq(command.payload', 1, Len(before)) = before
    /\ command.payload'[Len(before) + 1] = Len(command.payload') - Len(before)
    /\ command.n_documents' = count + 1

C17_PayloadHoldsCountedRecords ==
    /\ [](pc = "append" => WholeRecordsInPayload)
    /\ [][/\ pc = "append" => OneRecordAppended(command.payload,
                                                 command.n_documents)
          /\ pc = "init" =>
                \/ command.payload' = <<>> /\ command.n_documents' = 0
                \/ OneRecordAppended(<<>>, 0)]_vars

\* three inserts: {} and {_id: A} are stored in 22 bytes, {x: 1} in 29
C17_Witness ==
    /\ pc = "append"
    /\ command.type = "insert"
    /\ command.n_documents = 3
    /\ RecordLens(command.payload) = <<22, 29, 22>>

(***************************************************************************)
(* C21.  Every batch _mongoc_write_opmsg ships is a contiguous run of      *)
(* whole records of the payload; it starts where the previous shipped      *)
(* batch ended (the first at the start of the payload), oversized records  *)
(* that were skipped in between not counted; header + its bytes are at     *)
(* most max_msg_size; when max_write_batch_size is positive it holds at    *)
(* most that many records; and a batch is closed exactly when the count    *)
(* reaches max_write_batch_size, the last record was added, or the next    *)
(* record would not fit.                                                   *)
(***************************************************************************)
\* the bytes from byte offset a up to b are oversized records only
OnlyOversizedBetween(a, b) ==
    /\ a <= b
    /\ \A k \in 1..Len(command.payload) :
          (a <= RecordStart(k) /\ RecordStart(k) < b) => Oversized(k)
    /\ \/ a = b
       \/ AlignedAt(a) /\ (AlignedAt(b) \/ b = PayloadLen)

BatchEnd(b) == b.start + b.size

\* the record after the batch does not fit the message with the batch
NextDoesNotFit(b) ==
    /\ AlignedAt(BatchEnd(b))
    /\ ~OpmsgFits(b.size, OpmsgHeader(command.type),
                  command.payload[RecordAt(BatchEnd(b))], server.max_msg_size)

BatchIsRunOfRecords(j) ==
    /\ WholeRecords(sent[j])
    /\ Len(RecordsIn(sent[j])) = sent[j].count
    /\ OnlyOversizedBetween(IF j = 1 THEN 0 ELSE BatchEnd(sent[j - 1]),
                            sent[j].start)

BatchWithinLimits(j) ==
    /\ OpmsgHeader(command.type) + sent[j].size <= server.max_msg_size
    /\ server.max_write_batch_size > 0
          => sent[j].count <= server.max_write_batch_size

BatchClosedForCause(j) ==
    \/ sent[j].count = server.max_write_batch_size
    \/ BatchEnd(sent[j]) = PayloadLen
    \/ NextDoesNotFit(sent[j])

\* a batch that is still open has no cause to be closed
OpenBatchHasNoCause ==
    (pc = "loop" /\ document_count > 0) =>
       /\ document_count # server.max_write_batch_size
       /\ payload_batch_size + payload_total_offset # PayloadLen

C21_BatchesAreRunsWithinLimits ==
    /\ \A j \in 1..Len(sent) :
          /\ BatchIsRunOfRecords(j)
          /\ BatchWithinLimits(j)
          /\ BatchClosedForCause(j)
    /\ OpenBatchHasNoCause

(***************************************************************************)
(* C22.  Every command _mongoc_write_opquery sends carries at least one    *)
(* record, at most max_write_batch_size records when that is positive, and *)
(* its encoded size (command document, array framing, and for each record  *)
(* its key, two bytes and the record) is at most max_bson_obj_size +       *)
(* 16384.  The record that would overflow is the first record of the next  *)
(* round: a round starts at the record boundary where the round before it  *)
(* ended, so the commands carry consecutive runs of whole records that do  *)
(* not overlap, separated only by records reported as too large.           *)
(***************************************************************************)
\* overhead + ar.len once the records of the round are in the array
EncodedSize(b) ==
    QueryOverhead(command.type) + 5
       + SumLens([m \in 1..Len(RecordsIn(b)) |->
                    KeyLen(m - 1) + 2 + command.payload[RecordsIn(b)[m]]])

\* a too-large round skipped the record at byte offset pos
SkippedAt(pos) == \E j \in 1..Len(tooLarge) : tooLarge[j].pos = pos

\* the bytes from a up to b are records that a too-large round skipped
OnlySkippedBetween(a, b) ==
    /\ a <= b
    /\ \A k \in 1..Len(command.payload) :
          (a <= RecordStart(k) /\ RecordStart(k) < b)
             => SkippedAt(RecordStart(k))

AtRecordBoundary(pos) == AlignedAt(pos) \/ pos = PayloadLen

RoundIsRunOfRecords(j) ==
    /\ AtRecordBoundary(sent[j].start)
    /\ WholeRecords(sent[j])
    /\ Len(RecordsIn(sent[j])) = sent[j].count
    /\ OnlySkippedBetween(IF j = 1 THEN 0 ELSE BatchEnd(sent[j - 1]),
                          sent[j].start)

RoundWithinLimits(j) ==
    /\ sent[j].count >= 1
    /\ server.max_write_batch_size > 0
          => sent[j].count <= server.max_write_batch_size
    /\ EncodedSize(sent[j]) <= server.max_bson_obj_size + 16384

\* the next round reads from the end of the last command, or past the
\* records skipped after it
NextRoundStartsAtOverflow ==
    /\ AtRecordBoundary(data_offset)
    /\ OnlySkippedBetween(IF sent = <<>> THEN 0
                          ELSE BatchEnd(sent[Len(sent)]), data_offset)

C22_RoundsAreRunsWithinLimits ==
    /\ \A j \in 1..Len(sent) : RoundIsRunOfRecords(j) /\ RoundWithinLimits(j)
    /\ NextRoundStartsAtOverflow

\* two records of HalfLen and a small one, no limit on the count: the
\* second HalfLen record overflows round 1 and opens round 2
C22_Witness ==
    /\ server.max_write_batch_size = 0
    /\ command.payload = <<HalfLen, HalfLen, MinDocLen>>
    /\ Len(sent) = 2
    /\ sent[1].start = 0 /\ sent[1].count = 1
    /\ sent[2].start = HalfLen /\ sent[2].count = 2
    /\ data_offset = PayloadLen

(***************************************************************************)
(* Merging into a result a batcher has already written to: the result is   *)
(* fresh, or carries what a failed send left in it before the merge call   *)
(* (_mongoc_write_opmsg sets failed and must_stop, _mongoc_write_opquery   *)
(* sets failed and, for an empty reply, must_stop; the transport filled    *)
(* error).                                                                 *)
(***************************************************************************)
ResultsBeforeMerge ==
    { _mongoc_write_result_init,
      OpmsgAfterSend(_mongoc_write_result_init,
                     [ret |-> FALSE, reply |-> EmptyReply,
                      error |-> StreamError]),
      QueryAfterSend(_mongoc_write_result_init,
                     [ret |-> FALSE, reply |-> ErrorReply,
                      error |-> ServerError]) }

InitMergeAfterSend ==
    /\ command \in {[type |-> t, flags |-> [ordered |-> TRUE],
                     payload |-> <<MinDocLen>>, n_documents |-> 1] :
                       t \in Types}
    /\ server = [max_bson_obj_size |-> MaxBsonObjSize, max_msg_size |-> 0,
                 max_write_batch_size |-> 0,
                 max_wire_version |-> WIRE_VERSION_OP_MSG]
    /\ result \in ResultsBeforeMerge
    /\ start_offset = 0
    /\ index_offset = 0
    /\ offset = 0
    /\ pc = "merge"
    /\ write_concern = AcknowledgedWrite
    /\ header = HeaderInit
    /\ payload_batch_size = 0
    /\ payload_total_offset = 0
    /\ document_count = 0
    /\ data_offset = 0
    /\ has_more = FALSE
    /\ ret = FALSE
    /\ len = 0
    /\ sent = <<>>
    /\ tooLarge = <<>>
    /\ path = <<>>
    /\ complete = NotCompleted
    /\ appended = <<>>

SpecMergeAfterSend == InitMergeAfterSend /\ [][NextMerge]_vars

(***************************************************************************)
(* C23.  _mongoc_write_result_merge is purely additive.  For every reply   *)
(* with non-negative counts: no counter decreases; the entries already in  *)
(* upserted, writeErrors and writeConcernErrors stay, in place and         *)
(* unchanged; a reply's writeConcernError document is appended as it is;   *)
(* failed is never cleared, and it is set exactly when the reply's         *)
(* writeErrors array is non-empty; must_stop and error do not change.      *)
(***************************************************************************)
NonNegativeCounts(reply) == reply.n >= 0 /\ reply.nModified >= 0

IsPrefix(a, b) == Len(a) <= Len(b) /\ SubSeq(b, 1, Len(a)) = a

CountersOf(res) ==
    <<res.nInserted, res.nMatched, res.nModified, res.nRemoved,
      res.nUpserted, res.upsert_append_count, res.n_writeConcernErrors>>

MergeIsAdditive(before, after, reply) ==
    /\ \A c \in 1..Len(CountersOf(before)) :
          CountersOf(after)[c] >= CountersOf(before)[c]
    /\ IsPrefix(before.upserted, after.upserted)
    /\ IsPrefix(before.writeErrors, after.writeErrors)
    /\ after.writeConcernErrors =
          IF reply.has_wce
          THEN Append(before.writeConcernErrors,
                      DocElem(reply.writeConcernError))
          ELSE before.writeConcernErrors
    /\ after.failed = (before.failed \/ HasWriteErrors(reply))
    /\ after.must_stop = before.must_stop
    /\ after.error = before.error

C23_MergeIsAdditive ==
    [][(pc = "merge" /\ Len(sent') = Len(sent) + 1
          /\ NonNegativeCounts(sent'[Len(sent')].reply))
         => MergeIsAdditive(result, result', sent'[Len(sent')].reply)]_vars

\* a send failed, then a reply with a write error and a write concern
\* error was merged, then a reply without errors
C23_Witness ==
    /\ Len(sent) = 2
    /\ HasWriteErrors(sent[1].reply) /\ sent[1].reply.has_wce
    /\ sent[2].reply = OkReply(1)
    /\ result.failed
    /\ result.must_stop
    /\ result.error = StreamError
    /\ result.writeConcernErrors = <<DocElem(WriteConcernErrorDoc)>>
    /\ Len(result.writeErrors) = 2

(***************************************************************************)
(* C24.  When the reduction of writeErrors sets an error in                *)
(* _mongoc_write_result_complete, its domain is the server domain if       *)
(* error_api_version >= 2, else err_domain_override if one is given, else  *)
(* the domain already on result.error, else the collection domain; and the *)
(* code and the message do not depend on error_api_version.                *)
(***************************************************************************)
\* the reduction of writeErrors sets an error
WriteErrorsSetError(res) ==
    _set_error_from_response(res.writeErrors, "", "write", NoError) # NoError

ReportingDomain ==
    IF complete.error_api_version >= 2 THEN "server"
    ELSE IF complete.err_domain_override # "" THEN complete.err_domain_override
    ELSE IF complete.before.error.domain # "" THEN complete.before.error.domain
    ELSE "collection"

\* what the call would have given under error API version v
ErrorUnderVersion(v) ==
    CompleteError(complete.before,
                  CompleteDomain(v, complete.err_domain_override,
                                 complete.before))

C24_WriteErrorDomain ==
    (complete.called /\ WriteErrorsSetError(complete.before)) =>
       /\ complete.error.domain = ReportingDomain
       /\ \A v \in ErrorApiVersions :
             /\ ErrorUnderVersion(v).code = complete.error.code
             /\ ErrorUnderVersion(v).message = complete.error.message

\* a write error was merged, then a send failed and left a stream error;
\* version 1 and no override: the domain stays that of the stream error
C24_Witness ==
    /\ complete.called
    /\ complete.error_api_version = 1
    /\ complete.err_domain_override = ""
    /\ complete.before.error = StreamError
    /\ complete.before.writeErrors # <<>>
    /\ complete.error.domain = "stream"
    /\ complete.error.code = 11000
    /\ complete.error.message = "dup"

(***************************************************************************)
(* C25.  For an update or a delete command, after the init call and any    *)
(* appends: flags.has_collation is true exactly when it was true in the    *)
(* flags given to the init call or at least one options document appended  *)
(* had a "collation" field; a step never clears it; and the other flags,   *)
(* type and operation_id are those given to the init call.                 *)
(***************************************************************************)
CarriesCollation(call) ==
    /\ call.fn = "append"
    /\ ~call.opts.null
    /\ bson_has_field(call.opts.doc, "collation")

CollationIsInitialOrAppended ==
    (pc = "append" /\ command.type \in {"update", "delete"}) =>
       /\ command.flags.has_collation =
             \/ appended[1].flags.has_collation
             \/ \E j \in 1..Len(appended) : CarriesCollation(appended[j])
       /\ command.flags.ordered = appended[1].flags.ordered
       /\ command.flags.bypass_document_validation =
             appended[1].flags.bypass_document_validation
       /\ command.type = appended[1].type
       /\ command.operation_id = appended[1].operation_id

C25_CollationFlagAccumulates ==
    /\ []CollationIsInitialOrAppended
    /\ [][(pc = "append" /\ command.flags.has_collation)
            => command'.flags.has_collation]_vars

\* given without collation; an append with a collation, then one without
\* options and one with options that have no collation
C25_Witness ==
    /\ pc = "append"
    /\ command.type = "update"
    /\ ~appended[1].flags.has_collation
    /\ Len(appended) = 4
    /\ CarriesCollation(appended[2])
    /\ appended[3].opts.null
    /\ ~appended[4].opts.null /\ ~CarriesCollation(appended[4])
    /\ command.flags.has_collation

(***************************************************************************)
(* C26.  In every state of an execution, under _mongoc_write_opmsg and     *)
(* under _mongoc_write_opquery, and after _mongoc_write_result_complete:   *)
(* must_stop implies failed; no step resets failed or must_stop to false;  *)
(* and must_stop is not set by a batch whose send succeeded, whatever      *)
(* write errors its reply reports.                                         *)
(***************************************************************************)
\* this step closed a batch and its send succeeded
BatchSentWithSuccess ==
    /\ Len(sent') = Len(sent) + 1
    /\ sent'[Len(sent')].ret

C26_MustStopImpliesFailed ==
    /\ [](result.must_stop => result.failed)
    /\ [][/\ result.failed => result'.failed
          /\ result.must_stop => result'.must_stop
          /\ (BatchSentWithSuccess /\ ~result.must_stop)
                => ~result'.must_stop]_vars

\* an unordered command: the first batch was sent and its reply reports a
\* write error; failed is set, must_stop is not, and a second batch is sent
C26_Witness ==
    /\ Len(sent) = 2
    /\ sent[1].ret /\ HasWriteErrors(sent[1].reply)
    /\ sent[2].ret /\ ~HasWriteErrors(sent[2].reply)
    /\ result.failed
    /\ ~result.must_stop
    /\ pc = "completed"

(***************************************************************************)
(* _mongoc_write_opquery run to its end: the function is sequential code,  *)
(* so a round that can be taken is taken.                                  *)
(***************************************************************************)
SpecQueryFair == SpecQuery /\ WF_vars(NextQuery)

\* record k alone does not fit a command
TooLargeAlone(k) ==
    _mongoc_write_command_will_overflow(
       QueryOverhead(command.type), KeyLen(0) + command.payload[k] + 2 + 5,
       0, server.max_bson_obj_size, server.max_write_batch_size)

\* the round built a command of at least one record and moved past it
RoundCarriesRecords ==
    /\ Len(sent') = Len(sent) + 1
    /\ tooLarge' = tooLarge
    /\ sent'[Len(sent')].count >= 1
    /\ sent'[Len(sent')].start = data_offset
    /\ data_offset' = data_offset + sent'[Len(sent')].size
    /\ data_offset' > data_offset

\* the round skipped exactly one record, one that alone is too large
RoundSkipsOneRecord ==
    /\ Len(tooLarge') = Len(tooLarge) + 1
    /\ sent' = sent
    /\ AlignedAt(data_offset)
    /\ TooLargeAlone(RecordAt(data_offset))
    /\ data_offset' = data_offset + command.payload[RecordAt(data_offset)]

\* the round found the payload consumed: it reports the too-large error
\* once more, moves nothing and is the last round
RoundFindsNothing ==
    /\ Len(tooLarge') = Len(tooLarge) + 1
    /\ sent' = sent
    /\ data_offset = PayloadLen
    /\ data_offset' = data_offset
    /\ ~command.flags.ordered
    /\ pc' = "done"

RoundsStarted == Len(sent) + Len(tooLarge)

NoRecordInTwoRounds ==
    \A j, h \in 1..Len(sent) :
       j # h => \A a \in 1..Len(RecordsIn(sent[j])),
                   b \in 1..Len(RecordsIn(sent[h])) :
                     RecordsIn(sent[j])[a] # RecordsIn(sent[h])[b]

(***************************************************************************)
(* C27 as stated.  _mongoc_write_opquery terminates: every round either    *)
(* sends at least one record or skips exactly one oversized record, so the *)
(* position in the payload strictly increases from round to round and at   *)
(* most n_documents rounds are started; no record is sent in two rounds.   *)
(***************************************************************************)
C27_EveryRoundAdvances ==
    /\ <>(pc = "done")
    /\ [][pc = "again" =>
            /\ RoundCarriesRecords \/ RoundSkipsOneRecord
            /\ data_offset' > data_offset]_vars
    /\ [](RoundsStarted <= command.n_documents)
    /\ []NoRecordInTwoRounds

(***************************************************************************)
(* C27 as amended.  _mongoc_write_opquery terminates: every round either   *)
(* builds a command of at least one record and moves past its records, or  *)
(* skips exactly one record that alone is too large, or, for an unordered  *)
(* command after the last record of the payload was skipped, finds no      *)
(* record, reports the too-large error again and is the last round.  The   *)
(* position in the payload never decreases and strictly increases in every *)
(* round but that last one; at most n_documents + 1 rounds are started; no *)
(* record is sent in two rounds.                                           *)
(***************************************************************************)
C27_RoundsAdvanceOrEnd ==
    /\ <>(pc = "done")
    /\ [][pc = "again" =>
            \/ RoundCarriesRecords
            \/ RoundSkipsOneRecord
            \/ RoundFindsNothing]_vars
    /\ [](RoundsStarted <= command.n_documents + 1)
    /\ []NoRecordInTwoRounds

\* unordered, a small record and then a too-large one: round 1 sends the
\* first, round 2 skips the second, round 3 finds nothing
C27_Witness ==
    /\ ~command.flags.ordered
    /\ command.n_documents = 2
    /\ TooLargeAlone(2)
    /\ Len(sent) = 1
    /\ sent[1].ret
    /\ Len(tooLarge) = 2
    /\ tooLarge[1].pos = RecordStart(2)
    /\ tooLarge[2].pos = PayloadLen
    /\ data_offset = PayloadLen
    /\ pc = "done"

====
